---- MODULE Spec2Model ----
(***************************************************************************)
(* Model of the collab ingestion and realtime relay handlers of            *)
(* src/src/api/workspace.rs:                                               *)
(*   batch_create_collab_handler          (SpecBatch)                      *)
(*   create_collab_handler                (SpecCreate)                     *)
(*   post_realtime_message_stream_handler (SpecRealtime)                   *)
(* Byte offsets are 0-based as in the source; TLA+ sequences are 1-based,  *)
(* so payload_buffer[i] of the source is payload_buffer[i + 1] here.       *)
(***************************************************************************)
EXTENDS Integers, Sequences, FiniteSets, TLC

VARIABLES
  \* ---- batch_create_collab_handler
  b_pc,             \* position of the handler
  b_header,         \* input: the X-Compression-Type header of the request
  frames,           \* input: payloads of the complete frames the client sent
  tail,             \* input: bytes after the last complete frame (incomplete frame)
  pos,              \* bytes of the body the transport has delivered so far
  chunk_failed,     \* some item of the body stream was Err
  payload_buffer,   \* Vec<u8> receive buffer
  offset_len_list,  \* Vec<(usize, usize)> recorded spans
  current_offset,   \* scan position
  results,          \* per-span outcome of the rayon filter_map closure
  collab_params_list, \* accepted records
  embedding_results, \* result of each create_collab_embeddings future, once run
  handed,           \* argument of batch_insert_new_collab, once called
  b_calls,          \* collaborator calls made, in order
  b_resp,           \* response of the handler
  \* ---- create_collab_handler
  c_pc,             \* position of the handler
  c_header,         \* input: the X-Compression-Type header of the request
  c_body,           \* input: what the request body decodes to
  access,           \* input: the capability (uid, workspace, Write) in the access control
  params,           \* CollabParams after params.split()
  tx,               \* sqlx transaction: none, open, committed, rolled_back
  tx_writes,        \* rows written inside the transaction
  stored,           \* rows visible to reads
  insert_result,    \* result of insert_new_collab_with_transaction, once called
  commit_result,    \* result of transaction.commit(), once called
  c_calls,          \* collaborator calls made, in order
  c_resp,           \* response of the handler
  \* ---- post_realtime_message_stream_handler, one entry per request
  rt_pc,            \* position of each request
  rt_send,          \* result of the request's try_send, once made
  attempts,         \* number of try_send calls the request made
  rt_resp,          \* response of each request
  sink,             \* mailbox of the realtime server (bounded queue)
  sink_closed,      \* the realtime server has stopped
  admitted,         \* messages the sink has ever accepted
  rt_trace,         \* stages each request has been through, in order
  rt_req,           \* input: caller, device-id header and envelope of each request
  rt_msg,           \* ClientStreamMessage each request handed to try_send
  \* ---- post_publish_collabs_handler
  p_pc,             \* position of the handler
  p_stream,         \* input: the frames of the request body, in order
  p_next,           \* index in p_stream of the frame the reader is at
  p_read,           \* bytes the reader has consumed from the body
  p_alloc,          \* largest buffer the handler has allocated (vec![0; len])
  p_meta,           \* index of the metadata frame of the pair being read
  accumulator,      \* Vec<PublishCollabItem>
  published,        \* argument of each publish_collabs call, in order
  p_resp,           \* response of the handler
  \* ---- update_collab_handler
  u_pc,             \* position of the handler
  u_body,           \* input: the CreateCollabParams of the Json payload
  u_params,         \* CollabParams after split()
  u_calls,          \* collaborator calls made, in order
  u_queued,         \* argument of each queue_insert_or_update_collab call
  u_resp            \* response of the handler

bvars == <<b_pc, b_header, frames, tail, pos, chunk_failed, payload_buffer, offset_len_list,
           current_offset, results, collab_params_list, embedding_results, handed,
           b_calls, b_resp>>

cvars == <<c_pc, c_header, c_body, access, params, tx, tx_writes, stored, insert_result,
           commit_result, c_calls, c_resp>>

rvars == <<rt_pc, rt_send, attempts, rt_resp, sink, sink_closed, admitted, rt_trace,
          rt_req, rt_msg>>

pvars == <<p_pc, p_stream, p_next, p_read, p_alloc, p_meta, accumulator, published, p_resp>>

uvars == <<u_pc, u_body, u_params, u_calls, u_queued, u_resp>>

vars == <<bvars, cvars, rvars, pvars, uvars>>

\* ------------------------------------------------------------------ bounds
MaxFrames == 2
MaxChunk == 2
MaxReqs == 3
SinkCapacity == 1
RoutedReqs == 2

\* ------------------------------------------------------------------ helpers
Min(a, b) == IF a < b THEN a ELSE b

SeqsUpTo(S, n) == UNION {[1..k -> S] : k \in 0..n}

RECURSIVE Concat(_)
Concat(ss) == IF ss = <<>> THEN <<>> ELSE Head(ss) \o Concat(Tail(ss))

NoResp == [kind |-> "None", msg |-> ""]
Ok == [kind |-> "Ok", msg |-> ""]
Err(kind, msg) == [kind |-> kind, msg |-> msg]

\* ------------------------------------------------------------------ frame codec
\* Client side of the batch-list framing: [4-byte big-endian length][payload].
EncodeFrame(p) ==
  << (Len(p) \div 16777216) % 256, (Len(p) \div 65536) % 256,
     (Len(p) \div 256) % 256, Len(p) % 256 >> \o p

EncodeFrames(ps) == Concat([i \in 1..Len(ps) |-> EncodeFrame(ps[i])])

\* u32::from_le_bytes: the byte order a wrong decoder would use.
LeU32(b0, b1, b2, b3) == b0 + b1 * 256 + b2 * 65536 + b3 * 16777216

\* u32::from_be_bytes([b0, b1, b2, b3]) as usize
BeU32(b0, b1, b2, b3) == b0 * 16777216 + b1 * 65536 + b2 * 256 + b3

\* A length check that forgets the 4 header bytes.
FrameIncompleteNoHeader(off, size, buflen) == off + size > buflen

\* if current_offset + 4 + size > payload_buffer.len() { break; }
FrameIncomplete(off, size, buflen) == off + 4 + size > buflen

\* A scan that records a span at the frame's header instead of behind it.
RECURSIVE ScanFramesSpanAtHeader(_, _, _)
ScanFramesSpanAtHeader(buf, off, spans) ==
  IF off + 4 <= Len(buf)
  THEN LET size == BeU32(buf[off + 1], buf[off + 2], buf[off + 3], buf[off + 4])
       IN IF FrameIncomplete(off, size, Len(buf))
          THEN [current_offset |-> off, offset_len_list |-> spans]
          ELSE ScanFramesSpanAtHeader(buf, off + 4 + size, Append(spans, <<off, size>>))
  ELSE [current_offset |-> off, offset_len_list |-> spans]

\* The inner `while current_offset + 4 <= payload_buffer.len()` loop, run until
\* it exits: returns the new current_offset and offset_len_list.
RECURSIVE ScanFrames(_, _, _)
ScanFrames(buf, off, spans) ==
  IF off + 4 <= Len(buf)
  THEN LET size == BeU32(buf[off + 1], buf[off + 2], buf[off + 3], buf[off + 4])
       IN IF FrameIncomplete(off, size, Len(buf))
          THEN [current_offset |-> off, offset_len_list |-> spans]
          ELSE ScanFrames(buf, off + 4 + size, Append(spans, <<off + 4, size>>))
  ELSE [current_offset |-> off, offset_len_list |-> spans]

\* &payload_buffer[offset..offset + len]
Slice(buf, span) == SubSeq(buf, span[1] + 1, span[1] + span[2])

\* ------------------------------------------------------------------ record codec
\* The payloads of the model. The first byte of a payload decides how far the
\* record gets through decompress / from_bytes / validate / validate_encode_collab.
Payloads == { <<>>, <<0>>, <<1>>, <<2>>, <<3>>, <<3, 0>>, <<4>> }

\* Incomplete frames: every strict prefix of a frame of the model, and two
\* headers that declare more bytes than ever arrive.
Tails ==
  { SubSeq(EncodeFrame(p), 1, k) : p \in Payloads, k \in 0..4 }
    \cup { <<0, 0, 0, 2, 3>>, <<0, 0, 1, 0, 3>>, <<1, 0, 0, 0>> }

IncompleteTails == { t \in Tails : ScanFrames(t, 0, <<>>).offset_len_list = <<>> }

\* decompress(compressed_data.to_vec(), buffer_size)
Decompress(data) ==
  IF data = <<>> \/ data[1] = 4 THEN [ok |-> FALSE, data |-> <<>>]
  ELSE [ok |-> TRUE, data |-> data]

\* CollabParams::from_bytes(&decompressed_data)
FromBytes(data) ==
  IF data[1] = 0
  THEN [ok |-> FALSE, params |-> [object_id |-> <<>>, fields_ok |-> FALSE,
                                   encode_ok |-> FALSE, embeddings |-> "Submitted"]]
  ELSE [ok |-> TRUE, params |-> [object_id |-> data, fields_ok |-> data[1] # 1,
                                  encode_ok |-> data[1] # 2, embeddings |-> "Submitted"]]

\* params.validate().is_ok()
ParamsValidate(cp) == cp.fields_ok

\* validate_encode_collab(&params.object_id, &params.encoded_collab_v1, &params.collab_type)
ValidateEncodeCollab(cp) == cp.encode_ok

None == [tag |-> "None"]
Some(cp) == [tag |-> "Some", params |-> cp]
Pending == [tag |-> "Pending"]

\* A closure that lets a record through without the encoded-state check.
FilterMapClosureNoEncodeCheck(buf, span) ==
  LET d == Decompress(Slice(buf, span))
  IN IF ~d.ok THEN None
     ELSE LET p == FromBytes(d.data)
          IN IF ~p.ok THEN None
             ELSE IF ParamsValidate(p.params) THEN Some(p.params) ELSE None

\* The closure given to filter_map: Some(params) for an accepted span, None otherwise.
FilterMapClosure(buf, span) ==
  LET d == Decompress(Slice(buf, span))
  IN IF ~d.ok THEN None
     ELSE LET p == FromBytes(d.data)
          IN IF ~p.ok THEN None
             ELSE IF ParamsValidate(p.params)
                  THEN IF ValidateEncodeCollab(p.params) THEN Some(p.params) ELSE None
                  ELSE None

\* .collect::<Vec<_>>() of the filter_map results: the Some values, in span order.
RECURSIVE Collect(_)
Collect(rs) ==
  IF rs = <<>> THEN <<>>
  ELSE IF Head(rs).tag = "Some" THEN <<Head(rs).params>> \o Collect(Tail(rs))
       ELSE Collect(Tail(rs))

\* ------------------------------------------------------------------ enricher
EmbeddingOutcomes == {"Some", "None", "Err"}

\* A join that keeps the results that succeeded when another one failed.
FetchEmbeddingsPerRecord(list, outcome) ==
  [ok |-> \A i \in 1..Len(list) : outcome[i] # "Err",
   list |-> [i \in 1..Len(list) |->
               IF outcome[i] = "Err" THEN list[i]
               ELSE [list[i] EXCEPT !.embeddings =
                       IF outcome[i] = "Some" THEN "Computed" ELSE "NoEmbeddings"]]]

\* fetch_embeddings: try_join_all over create_collab_embeddings(param); outcome[i]
\* is the result of the i-th future.
FetchEmbeddings(list, outcome) ==
  IF \E i \in 1..Len(list) : outcome[i] = "Err"
  THEN [ok |-> FALSE, list |-> list]
  ELSE [ok |-> TRUE,
        list |-> [i \in 1..Len(list) |->
                    [list[i] EXCEPT !.embeddings =
                       IF outcome[i] = "Some" THEN "Computed" ELSE "NoEmbeddings"]]]

\* ------------------------------------------------------------------ batch handler
stream == EncodeFrames(frames) \o tail

NoParams == [object_id |-> "", collab_type |-> "", encode_ok |-> FALSE, embeddings |-> ""]

\* A row that was in storage before the request.
InitialStored ==
  { [object_id |-> "o0", collab_type |-> "Document", embeddings |-> "Submitted",
     part |-> "complete"] }

Reqs == 1..MaxReqs

\* The X-Compression-Type header of a request.
CompressionHeaders == {"absent", "brotli", "invalid"}

\* The handlers a specification does not run stay where they are.
BatchIdle ==
  /\ b_pc = "idle"
  /\ b_header = "absent"
  /\ frames = <<>>
  /\ tail = <<>>
  /\ pos = 0
  /\ chunk_failed = FALSE
  /\ payload_buffer = <<>>
  /\ offset_len_list = <<>>
  /\ current_offset = 0
  /\ results = <<>>
  /\ collab_params_list = <<>>
  /\ embedding_results = <<>>
  /\ handed = <<>>
  /\ b_calls = <<>>
  /\ b_resp = NoResp

CreateIdle ==
  /\ c_pc = "idle"
  /\ c_header = "absent"
  /\ c_body = [decompress_ok |-> TRUE, parse_ok |-> FALSE, params |-> NoParams]
  /\ access = "granted"
  /\ params = NoParams
  /\ tx = "none"
  /\ tx_writes = {}
  /\ stored = InitialStored
  /\ insert_result = "none"
  /\ commit_result = "none"
  /\ c_calls = <<>>
  /\ c_resp = NoResp

\* The request of caller r that carries its device id in the header and another
\* device id in the envelope.
DefaultRequest(r) ==
  [user_uuid |-> r, device_header |-> "devA", envelope_device_id |-> "devB"]

NoMessage == [uid |-> 0, device_id |-> "none"]

RtIdle ==
  /\ rt_pc = [r \in Reqs |-> "idle"]
  /\ rt_send = [r \in Reqs |-> "none"]
  /\ attempts = [r \in Reqs |-> 0]
  /\ rt_resp = [r \in Reqs |-> NoResp]
  /\ sink = <<>>
  /\ sink_closed = FALSE
  /\ admitted = {}
  /\ rt_trace = [r \in Reqs |-> <<>>]
  /\ rt_req = [r \in Reqs |-> DefaultRequest(r)]
  /\ rt_msg = [r \in Reqs |-> NoMessage]

PublishIdle ==
  /\ p_pc = "idle"
  /\ p_stream = <<>>
  /\ p_next = 1
  /\ p_read = 0
  /\ p_alloc = 0
  /\ p_meta = 0
  /\ accumulator = <<>>
  /\ published = <<>>
  /\ p_resp = NoResp

UpdateIdle ==
  /\ u_pc = "idle"
  /\ u_body = NoParams
  /\ u_params = NoParams
  /\ u_calls = <<>>
  /\ u_queued = <<>>
  /\ u_resp = NoResp

\* How the call log names the answer of the eligibility oracle.
CanIndexAnswer(r) ==
  CASE r = "true" -> "can_index_workspace: Ok(true)"
    [] r = "false" -> "can_index_workspace: Ok(false)"
    [] r = "err" -> "can_index_workspace: Err"

BatchOnly == UNCHANGED <<cvars, rvars, pvars, uvars>>

BatchInit ==
  /\ b_pc = "start"
  /\ b_header \in CompressionHeaders
  /\ frames \in SeqsUpTo(Payloads, MaxFrames)
  /\ tail \in IncompleteTails
  /\ pos = 0
  /\ chunk_failed = FALSE
  /\ payload_buffer = <<>>
  /\ offset_len_list = <<>>
  /\ current_offset = 0
  /\ results = <<>>
  /\ collab_params_list = <<>>
  /\ embedding_results = <<>>
  /\ handed = <<>>
  /\ b_calls = <<>>
  /\ b_resp = NoResp
  /\ CreateIdle
  /\ RtIdle
  /\ PublishIdle
  /\ UpdateIdle

BatchFinish(resp) ==
  /\ b_pc' = "done"
  /\ b_resp' = resp

\* get_user_uid(..).await? and compress_type_from_header_value(req.headers())?
\* CompressionType has the Brotli variant alone (the match below is exhaustive
\* with one arm), so for a request without the header the function returns an
\* error or Brotli.
BatchStart ==
  /\ b_pc = "start"
  /\ \E uid_ok \in BOOLEAN, absent_ok \in BOOLEAN :
       IF ~uid_ok THEN BatchFinish(Err("UserUidError", "get_user_uid"))
       ELSE IF b_header = "invalid" \/ (b_header = "absent" /\ ~absent_ok)
            THEN BatchFinish(Err("CompressionHeaderError", "compress_type_from_header_value"))
            ELSE b_pc' = "recv" /\ UNCHANGED b_resp
  /\ UNCHANGED <<embedding_results, b_header, frames, tail, pos, chunk_failed, payload_buffer, offset_len_list,
                 current_offset, results, collab_params_list, handed, b_calls>>
  /\ BatchOnly

\* payload.next() yields Some(Ok(bytes)): extend the buffer and scan it.
BatchRecvChunk ==
  /\ b_pc = "recv"
  /\ pos < Len(stream)
  /\ \E n \in 1..Min(MaxChunk, Len(stream) - pos) :
       LET buf == payload_buffer \o SubSeq(stream, pos + 1, pos + n)
           scan == ScanFrames(buf, current_offset, offset_len_list)
       IN /\ payload_buffer' = buf
          /\ current_offset' = scan.current_offset
          /\ offset_len_list' = scan.offset_len_list
          /\ pos' = pos + n
  /\ UNCHANGED <<embedding_results, b_pc, b_header, frames, tail, chunk_failed, results, collab_params_list,
                 handed, b_calls, b_resp>>
  /\ BatchOnly

\* payload.next() yields Some(Err(_)): `if let Ok(bytes) = item` skips the item.
BatchRecvErr ==
  /\ b_pc = "recv"
  /\ ~chunk_failed
  /\ chunk_failed' = TRUE
  /\ UNCHANGED <<embedding_results, b_pc, b_header, frames, tail, pos, payload_buffer, offset_len_list,
                 current_offset, results, collab_params_list, handed, b_calls, b_resp>>
  /\ BatchOnly

\* A handler that, at the end of the body, records the bytes it holds of an
\* incomplete frame as one more span.
BatchRecvEndFlushesPartial ==
  /\ b_pc = "recv"
  /\ pos = Len(stream)
  /\ b_pc' = "validate"
  /\ LET spans == IF current_offset + 4 < Len(payload_buffer)
                  THEN Append(offset_len_list,
                              <<current_offset + 4, Len(payload_buffer) - current_offset - 4>>)
                  ELSE offset_len_list
     IN /\ offset_len_list' = spans
        /\ results' = [i \in 1..Len(spans) |-> Pending]
  /\ UNCHANGED <<embedding_results, b_header, frames, tail, pos, chunk_failed, payload_buffer,
                 current_offset, collab_params_list, handed, b_calls, b_resp>>
  /\ BatchOnly

\* A receive loop that ends only when no incomplete frame is buffered.
BatchRecvEndWaitsForFrame ==
  /\ b_pc = "recv"
  /\ pos = Len(stream)
  /\ current_offset = Len(payload_buffer)
  /\ b_pc' = "validate"
  /\ results' = [i \in 1..Len(offset_len_list) |-> Pending]
  /\ UNCHANGED <<embedding_results, b_header, frames, tail, pos, chunk_failed, payload_buffer, offset_len_list,
                 current_offset, collab_params_list, handed, b_calls, b_resp>>
  /\ BatchOnly

\* payload.next() yields None: the loop ends and the validation task is spawned.
BatchRecvEnd ==
  /\ b_pc = "recv"
  /\ pos = Len(stream)
  /\ b_pc' = "validate"
  /\ results' = [i \in 1..Len(offset_len_list) |-> Pending]
  /\ UNCHANGED <<embedding_results, b_header, frames, tail, pos, chunk_failed, payload_buffer, offset_len_list,
                 current_offset, collab_params_list, handed, b_calls, b_resp>>
  /\ BatchOnly

\* A validator whose tasks see each other: a span is dropped when a later span
\* has been validated before it.
BatchValidateSpanOrderDependent ==
  /\ b_pc = "validate"
  /\ \E i \in 1..Len(results) :
       /\ results[i] = Pending
       /\ results' = [results EXCEPT ![i] =
            IF \E j \in 1..Len(results) : j > i /\ results[j] # Pending
            THEN None
            ELSE FilterMapClosure(payload_buffer, offset_len_list[i])]
  /\ UNCHANGED <<embedding_results, b_pc, b_header, frames, tail, pos, chunk_failed, payload_buffer, offset_len_list,
                 current_offset, collab_params_list, handed, b_calls, b_resp>>
  /\ BatchOnly

\* One rayon task of into_par_iter().filter_map(..): any pending span, in any order.
BatchValidateSpan ==
  /\ b_pc = "validate"
  /\ \E i \in 1..Len(results) :
       /\ results[i] = Pending
       /\ results' = [results EXCEPT ![i] = FilterMapClosure(payload_buffer, offset_len_list[i])]
  /\ UNCHANGED <<embedding_results, b_pc, b_header, frames, tail, pos, chunk_failed, payload_buffer, offset_len_list,
                 current_offset, collab_params_list, handed, b_calls, b_resp>>
  /\ BatchOnly

\* spawn_blocking(..).await returns the collected list.
BatchJoin ==
  /\ b_pc = "validate"
  /\ \A i \in 1..Len(results) : results[i] # Pending
  /\ collab_params_list' = Collect(results)
  /\ b_pc' = "empty_check"
  /\ UNCHANGED <<embedding_results, b_header, frames, tail, pos, chunk_failed, payload_buffer, offset_len_list,
                 current_offset, results, handed, b_calls, b_resp>>
  /\ BatchOnly

\* A handler that takes a JoinError for an accepted set of size zero.
BatchJoinErrorAsEmpty ==
  /\ b_pc = "validate"
  /\ collab_params_list' = <<>>
  /\ b_pc' = "empty_check"
  /\ UNCHANGED <<embedding_results, b_header, frames, tail, pos, chunk_failed, payload_buffer, offset_len_list,
                 current_offset, results, handed, b_calls, b_resp>>
  /\ BatchOnly

\* spawn_blocking(..).await returns a JoinError: map_err(.. "Failed to decompress data")?
BatchJoinError ==
  /\ b_pc = "validate"
  /\ BatchFinish(Err("InvalidRequest", "Failed to decompress data"))
  /\ UNCHANGED <<embedding_results, b_header, frames, tail, pos, chunk_failed, payload_buffer, offset_len_list,
                 current_offset, results, collab_params_list, handed, b_calls>>
  /\ BatchOnly

\* A handler without the is_empty() check.
BatchEmptyCheckMissing ==
  /\ b_pc = "empty_check"
  /\ b_pc' = "can_index"
  /\ UNCHANGED <<embedding_results, b_header, frames, tail, pos, chunk_failed, payload_buffer, offset_len_list,
                 current_offset, results, collab_params_list, handed, b_calls, b_resp>>
  /\ BatchOnly

\* if collab_params_list.is_empty() { return Err(InvalidRequest("Empty collab params list")) }
BatchEmptyCheck ==
  /\ b_pc = "empty_check"
  /\ IF collab_params_list = <<>>
     THEN BatchFinish(Err("InvalidRequest", "Empty collab params list"))
     ELSE b_pc' = "can_index" /\ UNCHANGED b_resp
  /\ UNCHANGED <<embedding_results, b_header, frames, tail, pos, chunk_failed, payload_buffer, offset_len_list,
                 current_offset, results, collab_params_list, handed, b_calls>>
  /\ BatchOnly

\* A handler that computes embeddings whatever the oracle answered.
BatchCanIndexAlwaysEnriches ==
  /\ b_pc = "can_index"
  /\ \E r \in {"true", "false", "err"} :
       /\ b_calls' = b_calls \o <<"can_index_workspace", CanIndexAnswer(r)>>
       /\ CASE r = "true" -> b_pc' = "fetch_embeddings" /\ UNCHANGED b_resp
            [] r = "false" -> b_pc' = "fetch_embeddings" /\ UNCHANGED b_resp
            [] r = "err" -> BatchFinish(Err("Propagated", "can_index_workspace"))
  /\ UNCHANGED <<embedding_results, b_header, frames, tail, pos, chunk_failed, payload_buffer, offset_len_list,
                 current_offset, results, collab_params_list, handed>>
  /\ BatchOnly

\* state.indexer_provider.can_index_workspace(&workspace_id).await?
BatchCanIndex ==
  /\ b_pc = "can_index"
  /\ \E r \in {"true", "false", "err"} :
       /\ b_calls' = b_calls \o <<"can_index_workspace", CanIndexAnswer(r)>>
       /\ CASE r = "true" -> b_pc' = "fetch_embeddings" /\ UNCHANGED b_resp
            [] r = "false" -> b_pc' = "insert" /\ UNCHANGED b_resp
            [] r = "err" -> BatchFinish(Err("Propagated", "can_index_workspace"))
  /\ UNCHANGED <<embedding_results, b_header, frames, tail, pos, chunk_failed, payload_buffer, offset_len_list,
                 current_offset, results, collab_params_list, handed>>
  /\ BatchOnly

\* if let Err(err) = fetch_embeddings(..).await { warn!(..) }
BatchFetchEmbeddings ==
  /\ b_pc = "fetch_embeddings"
  /\ b_calls' = Append(b_calls, "fetch_embeddings")
  /\ \E outcome \in [1..Len(collab_params_list) -> EmbeddingOutcomes] :
       /\ embedding_results' = outcome
       /\ collab_params_list' = FetchEmbeddings(collab_params_list, outcome).list
  /\ b_pc' = "insert"
  /\ UNCHANGED <<b_header, frames, tail, pos, chunk_failed, payload_buffer, offset_len_list,
                 current_offset, results, handed, b_resp>>
  /\ BatchOnly

\* A handler that calls the storage operation a second time when it failed.
BatchInsertRetries ==
  /\ b_pc = "insert"
  /\ b_calls' = Append(b_calls, "batch_insert_new_collab")
  /\ handed' = collab_params_list
  /\ \E r \in {"ok", "denied", "failed"} :
       CASE r = "ok" -> BatchFinish(Ok)
         [] r = "denied" -> BatchFinish(Err("PermissionDenied", "batch_insert_new_collab"))
         [] r = "failed" ->
              IF \E i \in 1..Len(b_calls) : b_calls[i] = "batch_insert_new_collab"
              THEN BatchFinish(Err("Propagated", "batch_insert_new_collab"))
              ELSE UNCHANGED <<b_pc, b_resp>>
  /\ UNCHANGED <<embedding_results, b_header, frames, tail, pos, chunk_failed, payload_buffer, offset_len_list,
                 current_offset, results, collab_params_list>>
  /\ BatchOnly

\* batch_insert_new_collab(&workspace_id, &uid, collab_params_list).await?; Ok(..)
BatchInsert ==
  /\ b_pc = "insert"
  /\ b_calls' = Append(b_calls, "batch_insert_new_collab")
  /\ handed' = collab_params_list
  /\ \E r \in {"ok", "denied", "failed"} :
       CASE r = "ok" -> BatchFinish(Ok)
         [] r = "denied" -> BatchFinish(Err("PermissionDenied", "batch_insert_new_collab"))
         [] r = "failed" -> BatchFinish(Err("Propagated", "batch_insert_new_collab"))
  /\ UNCHANGED <<embedding_results, b_header, frames, tail, pos, chunk_failed, payload_buffer, offset_len_list,
                 current_offset, results, collab_params_list>>
  /\ BatchOnly

BatchNext ==
  \/ BatchStart
  \/ BatchRecvChunk
  \/ BatchRecvErr
  \/ BatchRecvEnd
  \/ BatchValidateSpan
  \/ BatchJoin
  \/ BatchJoinError
  \/ BatchEmptyCheck
  \/ BatchCanIndex
  \/ BatchFetchEmbeddings
  \/ BatchInsert

SpecBatch == BatchInit /\ [][BatchNext]_vars

\* ------------------------------------------------------------------ create handler
workspace_id == "ws"

CollabTypes == {"Document", "Database", "Folder"}

\* What a request body can decode to: whether it decompresses, whether it parses
\* as CreateCollabParams, and the record it then holds.
Bodies ==
  { [decompress_ok |-> TRUE, parse_ok |-> FALSE, params |-> NoParams],
    [decompress_ok |-> FALSE, parse_ok |-> FALSE, params |-> NoParams] }
  \cup
  { [decompress_ok |-> TRUE, parse_ok |-> TRUE,
     params |-> [object_id |-> o, collab_type |-> t, encode_ok |-> e,
                 embeddings |-> "Submitted"]] :
      o \in {workspace_id, "o1"}, t \in CollabTypes, e \in BOOLEAN }

\* The row storage keeps for a record.
Row(cp, part) ==
  [object_id |-> cp.object_id, collab_type |-> cp.collab_type,
   embeddings |-> cp.embeddings, part |-> part]

\* insert_new_collab_with_transaction of the access-controlled store: the
\* capability check for (uid, workspace, Write) comes first, then the rows are
\* written inside the caller's transaction; db is how the write goes.
InsertNewCollabWithTransaction(acc, db, cp) ==
  IF acc = "denied" THEN [result |-> "denied", writes |-> {}]
  ELSE CASE db = "ok" -> [result |-> "ok", writes |-> {Row(cp, "complete")}]
         [] db = "fail_clean" -> [result |-> "failed", writes |-> {}]
         [] db = "fail_partial" -> [result |-> "failed", writes |-> {Row(cp, "partial")}]

CreateInit ==
  /\ c_pc = "start"
  /\ c_header \in CompressionHeaders
  /\ c_body \in Bodies
  /\ access \in {"granted", "denied"}
  /\ params = NoParams
  /\ tx = "none"
  /\ tx_writes = {}
  /\ stored = InitialStored
  /\ insert_result = "none"
  /\ commit_result = "none"
  /\ c_calls = <<>>
  /\ c_resp = NoResp
  /\ BatchIdle
  /\ RtIdle
  /\ PublishIdle
  /\ UpdateIdle

CreateFinish(resp) ==
  /\ c_pc' = "done"
  /\ c_resp' = resp

CreateOnly == UNCHANGED <<c_header, c_body, access, bvars, rvars, pvars, uvars>>

\* let uid = state.user_cache.get_user_uid(&user_uuid).await?;
CreateStart ==
  /\ c_pc = "start"
  /\ \E uid_ok \in BOOLEAN :
       IF uid_ok THEN c_pc' = "parse" /\ UNCHANGED c_resp
       ELSE CreateFinish(Err("UserUidError", "get_user_uid"))
  /\ UNCHANGED <<params, tx, tx_writes, stored, insert_result, commit_result, c_calls>>
  /\ CreateOnly

\* match req.headers().get(X_COMPRESSION_TYPE) { None => from_slice, Some(_) => .. }
\* followed by params.split()
CreateParse ==
  /\ c_pc = "parse"
  /\ CASE c_header = "absent" ->
            IF c_body.parse_ok
            THEN params' = c_body.params /\ c_pc' = "precondition" /\ UNCHANGED c_resp
            ELSE /\ CreateFinish(Err("InvalidRequest",
                                     "Failed to parse CreateCollabParams from JSON"))
                 /\ UNCHANGED params
       [] c_header = "invalid" ->
            /\ CreateFinish(Err("CompressionHeaderError", "compress_type_from_header_value"))
            /\ UNCHANGED params
       [] c_header = "brotli" ->
            IF ~c_body.decompress_ok
            THEN /\ CreateFinish(Err("Propagated", "blocking_decompress"))
                 /\ UNCHANGED params
            ELSE IF c_body.parse_ok
                 THEN params' = c_body.params /\ c_pc' = "precondition" /\ UNCHANGED c_resp
                 ELSE /\ CreateFinish(Err("InvalidRequest",
                            "Failed to parse CreateCollabParams with brotli decompression data"))
                      /\ UNCHANGED params
  /\ UNCHANGED <<tx, tx_writes, stored, insert_result, commit_result, c_calls>>
  /\ CreateOnly

\* A handler without the object_id / workspace_id check.
CreatePreconditionMissing ==
  /\ c_pc = "precondition"
  /\ c_pc' = "check_encode"
  /\ UNCHANGED <<c_resp, params, tx, tx_writes, stored, insert_result, commit_result, c_calls>>
  /\ CreateOnly

\* if params.object_id == workspace_id { return Err(InvalidRequest(..)) }
CreatePrecondition ==
  /\ c_pc = "precondition"
  /\ IF params.object_id = workspace_id
     THEN CreateFinish(Err("InvalidRequest", "object_id cannot be the same as workspace_id"))
     ELSE c_pc' = "check_encode" /\ UNCHANGED c_resp
  /\ UNCHANGED <<params, tx, tx_writes, stored, insert_result, commit_result, c_calls>>
  /\ CreateOnly

\* if let Err(err) = params.check_encode_collab().await { return Err(NoRequiredData(..)) }
CreateCheckEncode ==
  /\ c_pc = "check_encode"
  /\ c_calls' = Append(c_calls, "check_encode_collab")
  /\ IF params.encode_ok
     THEN c_pc' = "can_index" /\ UNCHANGED c_resp
     ELSE CreateFinish(Err("NoRequiredData", "collab doc state is not correct"))
  /\ UNCHANGED <<params, tx, tx_writes, stored, insert_result, commit_result>>
  /\ CreateOnly

\* A handler that opens the transaction before it computes the embeddings.
CreateCanIndexOpensTransaction ==
  /\ c_pc = "can_index"
  /\ \E r \in {"true", "false", "err"} :
       /\ CASE r = "true" ->
                 /\ c_calls' = c_calls \o <<"can_index_workspace", CanIndexAnswer(r), "begin">>
                 /\ tx' = "open"
                 /\ c_pc' = "embeddings"
                 /\ UNCHANGED c_resp
            [] r = "false" ->
                 /\ c_calls' = c_calls \o <<"can_index_workspace", CanIndexAnswer(r)>>
                 /\ c_pc' = "begin"
                 /\ UNCHANGED <<c_resp, tx>>
            [] r = "err" ->
                 /\ c_calls' = c_calls \o <<"can_index_workspace", CanIndexAnswer(r)>>
                 /\ CreateFinish(Err("Propagated", "can_index_workspace"))
                 /\ UNCHANGED tx
  /\ UNCHANGED <<params, tx_writes, stored, insert_result, commit_result>>
  /\ CreateOnly

\* if state.indexer_provider.can_index_workspace(&workspace_id).await? { .. }
CreateCanIndex ==
  /\ c_pc = "can_index"
  /\ \E r \in {"true", "false", "err"} :
       /\ c_calls' = c_calls \o <<"can_index_workspace", CanIndexAnswer(r)>>
       /\ CASE r = "true" -> c_pc' = "embeddings" /\ UNCHANGED c_resp
            [] r = "false" -> c_pc' = "begin" /\ UNCHANGED c_resp
            [] r = "err" -> CreateFinish(Err("Propagated", "can_index_workspace"))
  /\ UNCHANGED <<params, tx, tx_writes, stored, insert_result, commit_result>>
  /\ CreateOnly

\* match create_collab_embeddings(&params).await { Ok(e) => params.embeddings = e, Err => warn }
CreateEmbeddings ==
  /\ c_pc = "embeddings"
  /\ c_calls' = Append(c_calls, "create_collab_embeddings")
  /\ \E r \in EmbeddingOutcomes :
       params' = CASE r = "Some" -> [params EXCEPT !.embeddings = "Computed"]
                   [] r = "None" -> [params EXCEPT !.embeddings = "NoEmbeddings"]
                   [] r = "Err" -> params
  /\ c_pc' = "begin"
  /\ UNCHANGED <<c_resp, tx, tx_writes, stored, insert_result, commit_result>>
  /\ CreateOnly

\* state.pg_pool.begin().await.context(..).map_err(AppError::from)?
CreateBegin ==
  /\ c_pc = "begin"
  /\ c_calls' = Append(c_calls, "begin")
  /\ \E ok \in BOOLEAN :
       IF ok THEN tx' = "open" /\ c_pc' = "insert" /\ UNCHANGED c_resp
       ELSE /\ CreateFinish(Err("Internal", "acquire transaction to upsert collab"))
            /\ UNCHANGED tx
  /\ UNCHANGED <<params, tx_writes, stored, insert_result, commit_result>>
  /\ CreateOnly

\* A handler that goes on to commit whatever the insert returned.
CreateInsertIgnoreError ==
  /\ c_pc = "insert"
  /\ c_calls' = Append(c_calls, "insert_new_collab_with_transaction")
  /\ \E db \in {"ok", "fail_clean", "fail_partial"} :
       LET r == InsertNewCollabWithTransaction(access, db, params)
       IN /\ insert_result' = r.result
          /\ tx_writes' = r.writes
  /\ c_pc' = "commit"
  /\ UNCHANGED <<c_resp, tx, params, stored, commit_result>>
  /\ CreateOnly

\* A handler that reports every failure of the insert as InvalidRequest.
CreateInsertErrorAsInvalidRequest ==
  /\ c_pc = "insert"
  /\ c_calls' = Append(c_calls, "insert_new_collab_with_transaction")
  /\ \E db \in {"ok", "fail_clean", "fail_partial"} :
       LET r == InsertNewCollabWithTransaction(access, db, params)
       IN /\ insert_result' = r.result
          /\ tx_writes' = r.writes
          /\ IF r.result = "ok" THEN c_pc' = "commit" /\ UNCHANGED <<c_resp, tx>>
             ELSE /\ tx' = "rolled_back"
                  /\ CreateFinish(Err("InvalidRequest", "insert_new_collab_with_transaction"))
  /\ UNCHANGED <<params, stored, commit_result>>
  /\ CreateOnly

\* insert_new_collab_with_transaction(&workspace_id, &uid, params, &mut transaction, ..).await?
\* On Err the handler returns and the dropped transaction rolls back.
CreateInsert ==
  /\ c_pc = "insert"
  /\ c_calls' = Append(c_calls, "insert_new_collab_with_transaction")
  /\ \E db \in {"ok", "fail_clean", "fail_partial"} :
       LET r == InsertNewCollabWithTransaction(access, db, params)
       IN /\ insert_result' = r.result
          /\ tx_writes' = r.writes
          /\ CASE r.result = "ok" -> c_pc' = "commit" /\ UNCHANGED <<c_resp, tx>>
               [] r.result = "denied" ->
                    /\ tx' = "rolled_back"
                    /\ CreateFinish(Err("PermissionDenied", "insert_new_collab_with_transaction"))
               [] r.result = "failed" ->
                    /\ tx' = "rolled_back"
                    /\ CreateFinish(Err("Propagated", "insert_new_collab_with_transaction"))
  /\ UNCHANGED <<params, stored, commit_result>>
  /\ CreateOnly

\* transaction.commit().await.context(..).map_err(AppError::from)?; Ok(Json(AppResponse::Ok()))
CreateCommit ==
  /\ c_pc = "commit"
  /\ c_calls' = Append(c_calls, "commit")
  /\ \E ok \in BOOLEAN :
       IF ok
       THEN /\ commit_result' = "ok"
            /\ tx' = "committed"
            /\ stored' = stored \cup tx_writes
            /\ CreateFinish(Ok)
       ELSE /\ commit_result' = "failed"
            /\ tx' = "rolled_back"
            /\ UNCHANGED stored
            /\ CreateFinish(Err("Internal", "fail to commit the transaction to upsert collab"))
  /\ UNCHANGED <<params, tx_writes, insert_result>>
  /\ CreateOnly

CreateNext ==
  \/ CreateStart
  \/ CreateParse
  \/ CreatePrecondition
  \/ CreateCheckEncode
  \/ CreateCanIndex
  \/ CreateEmbeddings
  \/ CreateBegin
  \/ CreateInsert
  \/ CreateCommit

SpecCreate == CreateInit /\ [][CreateNext]_vars

\* ------------------------------------------------------------------ realtime relay
RtInitWith(arriving, requests) ==
  /\ rt_pc = [r \in Reqs |-> IF r \in arriving THEN "start" ELSE "idle"]
  /\ rt_send = [r \in Reqs |-> "none"]
  /\ attempts = [r \in Reqs |-> 0]
  /\ rt_resp = [r \in Reqs |-> NoResp]
  /\ sink = <<>>
  /\ sink_closed = FALSE
  /\ admitted = {}
  /\ rt_trace = [r \in Reqs |-> <<>>]
  /\ rt_req = requests
  /\ rt_msg = [r \in Reqs |-> NoMessage]
  /\ BatchIdle
  /\ CreateIdle
  /\ PublishIdle
  /\ UpdateIdle

RtInit == RtInitWith(Reqs, [r \in Reqs |-> DefaultRequest(r)])

\* device_id_from_headers(req.headers()): the header's value, or an error when the
\* header is missing or is not a valid string.
DeviceIdFromHeaders(header) ==
  IF header \in {"missing", "invalid"}
  THEN [ok |-> FALSE, value |-> header]
  ELSE [ok |-> TRUE, value |-> header]

\* user_cache.get_user_uid(&user_uuid): the numeric id of the authenticated caller.
GetUserUid(user_uuid) == 100 + user_uuid

\* A stream message that takes the device id of the decoded envelope.
StreamMessageFromEnvelope(r) ==
  [uid |-> GetUserUid(rt_req[r].user_uuid),
   device_id |-> rt_req[r].envelope_device_id]

\* let device_id = device_id_from_headers(..).unwrap_or_else(|_| "".to_string());
\* let HttpRealtimeMessage { device_id: _, payload } = ..decode(..)?;
\* ClientStreamMessage { uid, device_id, message }
StreamMessage(r) ==
  [uid |-> GetUserUid(rt_req[r].user_uuid),
   device_id |-> LET d == DeviceIdFromHeaders(rt_req[r].device_header)
                 IN IF d.ok THEN d.value ELSE ""]

RtFinish(r, resp) ==
  /\ rt_pc' = [rt_pc EXCEPT ![r] = "done"]
  /\ rt_resp' = [rt_resp EXCEPT ![r] = resp]

RtGoto(r, to) ==
  /\ rt_pc' = [rt_pc EXCEPT ![r] = to]
  /\ UNCHANGED rt_resp

RtLog(r, events) == rt_trace' = [rt_trace EXCEPT ![r] = @ \o events]

RtOnly == UNCHANGED <<rt_req, bvars, cvars, pvars, uvars>>

\* get_user_uid(..).await.map_err(AppResponseError::from)? and the loop
\* `while let Some(item) = payload.next().await { bytes.extend_from_slice(&item?); }`
RtReceive(r) ==
  /\ rt_pc[r] = "start"
  /\ \E uid_ok \in BOOLEAN, body_ok \in BOOLEAN :
       IF ~uid_ok THEN RtFinish(r, Err("UserUidError", "get_user_uid"))
       ELSE IF ~body_ok THEN RtFinish(r, Err("PayloadError", "payload.next"))
            ELSE RtGoto(r, "parse_outer")
  /\ UNCHANGED <<rt_send, attempts, sink, sink_closed, admitted, rt_trace, rt_msg>>
  /\ RtOnly

\* HttpRealtimeMessage::decode(payload.as_ref()).map_err(|err| AppError::Internal(err.into()))?
\* then the match on the X_COMPRESSION_TYPE header
RtParseOuter(r) ==
  /\ rt_pc[r] = "parse_outer"
  /\ \E outer_ok \in BOOLEAN, header \in CompressionHeaders :
       IF ~outer_ok
       THEN /\ RtFinish(r, Err("Internal", "HttpRealtimeMessage::decode"))
            /\ RtLog(r, <<"outer_err">>)
       ELSE CASE header = "absent" ->
                   RtGoto(r, "decode_inner") /\ RtLog(r, <<"outer_ok", "header_absent">>)
              [] header = "invalid" ->
                   /\ RtFinish(r, Err("CompressionHeaderError",
                                      "compress_type_from_header_value"))
                   /\ RtLog(r, <<"outer_ok", "header_err">>)
              [] header = "brotli" ->
                   RtGoto(r, "decompress") /\ RtLog(r, <<"outer_ok", "header_brotli">>)
  /\ UNCHANGED <<rt_send, attempts, sink, sink_closed, admitted, rt_msg>>
  /\ RtOnly

\* blocking_decompress(payload, buffer_size).await?
RtDecompress(r) ==
  /\ rt_pc[r] = "decompress"
  /\ \E ok \in BOOLEAN :
       IF ok THEN RtGoto(r, "decode_inner") /\ RtLog(r, <<"decompress_ok">>)
       ELSE /\ RtFinish(r, Err("Propagated", "blocking_decompress"))
            /\ RtLog(r, <<"decompress_err">>)
  /\ UNCHANGED <<rt_send, attempts, sink, sink_closed, admitted, rt_msg>>
  /\ RtOnly

\* A parser whose inner decode error does not stop the message from being routed.
RtDecodeInnerRoutesAnyway(r) ==
  /\ rt_pc[r] = "decode_inner"
  /\ \E res \in {"ok", "decode_err", "join_err"} :
       CASE res = "ok" -> RtGoto(r, "try_send") /\ RtLog(r, <<"inner_ok">>)
         [] res = "decode_err" -> RtGoto(r, "try_send") /\ RtLog(r, <<"inner_err">>)
         [] res = "join_err" ->
              /\ RtFinish(r, Err("Propagated", "spawn_blocking"))
              /\ RtLog(r, <<"join_err">>)
  /\ UNCHANGED <<rt_send, attempts, sink, sink_closed, admitted, rt_msg>>
  /\ RtOnly

\* spawn_blocking(|| RealtimeMessage::decode(&bytes).map_err(InvalidRequest)).await
\*   .map_err(AppError::from)??
RtDecodeInner(r) ==
  /\ rt_pc[r] = "decode_inner"
  /\ \E res \in {"ok", "decode_err", "join_err"} :
       CASE res = "ok" -> RtGoto(r, "try_send") /\ RtLog(r, <<"inner_ok">>)
         [] res = "decode_err" ->
              /\ RtFinish(r, Err("InvalidRequest", "Failed to parse RealtimeMessage"))
              /\ RtLog(r, <<"inner_err">>)
         [] res = "join_err" ->
              /\ RtFinish(r, Err("Propagated", "spawn_blocking"))
              /\ RtLog(r, <<"join_err">>)
  /\ UNCHANGED <<rt_send, attempts, sink, sink_closed, admitted, rt_msg>>
  /\ RtOnly

\* A send that waits for queue space instead of failing (Addr::send).
RtTrySendWaits(r) ==
  /\ rt_pc[r] = "try_send"
  /\ sink_closed \/ Len(sink) < SinkCapacity
  /\ attempts' = [attempts EXCEPT ![r] = @ + 1]
  /\ IF sink_closed
     THEN /\ rt_send' = [rt_send EXCEPT ![r] = "closed"]
          /\ UNCHANGED <<sink, admitted>>
     ELSE /\ rt_send' = [rt_send EXCEPT ![r] = "ok"]
          /\ sink' = Append(sink, r)
          /\ admitted' = admitted \cup {r}
  /\ RtGoto(r, "respond")
  /\ RtLog(r, <<"try_send">>)
  /\ rt_msg' = [rt_msg EXCEPT ![r] = StreamMessage(r)]
  /\ UNCHANGED sink_closed
  /\ RtOnly

\* A send that reports a full mailbox and leaves the message in it all the same.
RtTrySendOverCapacity(r) ==
  /\ rt_pc[r] = "try_send"
  /\ attempts' = [attempts EXCEPT ![r] = @ + 1]
  /\ IF sink_closed
     THEN /\ rt_send' = [rt_send EXCEPT ![r] = "closed"]
          /\ UNCHANGED <<sink, admitted>>
     ELSE IF Len(sink) >= SinkCapacity
          THEN /\ rt_send' = [rt_send EXCEPT ![r] = "full"]
               /\ sink' = Append(sink, r)
               /\ UNCHANGED admitted
          ELSE /\ rt_send' = [rt_send EXCEPT ![r] = "ok"]
               /\ sink' = Append(sink, r)
               /\ admitted' = admitted \cup {r}
  /\ RtGoto(r, "respond")
  /\ RtLog(r, <<"try_send">>)
  /\ rt_msg' = [rt_msg EXCEPT ![r] = StreamMessage(r)]
  /\ UNCHANGED sink_closed
  /\ RtOnly

\* server.try_send(stream_message): Err(Closed) when the server has stopped,
\* Err(Full) when the mailbox is at capacity, otherwise the message is queued.
RtTrySend(r) ==
  /\ rt_pc[r] = "try_send"
  /\ attempts' = [attempts EXCEPT ![r] = @ + 1]
  /\ IF sink_closed
     THEN /\ rt_send' = [rt_send EXCEPT ![r] = "closed"]
          /\ UNCHANGED <<sink, admitted>>
     ELSE IF Len(sink) >= SinkCapacity
          THEN /\ rt_send' = [rt_send EXCEPT ![r] = "full"]
               /\ UNCHANGED <<sink, admitted>>
          ELSE /\ rt_send' = [rt_send EXCEPT ![r] = "ok"]
               /\ sink' = Append(sink, r)
               /\ admitted' = admitted \cup {r}
  /\ RtGoto(r, "respond")
  /\ RtLog(r, <<"try_send">>)
  /\ rt_msg' = [rt_msg EXCEPT ![r] = StreamMessage(r)]
  /\ UNCHANGED sink_closed
  /\ RtOnly

\* A handler that tries again when the mailbox was full.
RtRespondRetries(r) ==
  /\ rt_pc[r] = "respond"
  /\ CASE rt_send[r] = "ok" -> RtFinish(r, Ok)
       [] rt_send[r] = "full" -> RtGoto(r, "try_send")
       [] OTHER ->
            RtFinish(r, Err("Internal", "Failed to send message to websocket server"))
  /\ UNCHANGED <<rt_send, attempts, sink, sink_closed, admitted, rt_trace, rt_msg>>
  /\ RtOnly

\* match server.try_send(..) { Ok(_) => Ok(AppResponse::Ok()), Err(err) => Err(Internal(..)) }
RtRespond(r) ==
  /\ rt_pc[r] = "respond"
  /\ IF rt_send[r] = "ok" THEN RtFinish(r, Ok)
     ELSE RtFinish(r, Err("Internal", "Failed to send message to websocket server"))
  /\ UNCHANGED <<rt_send, attempts, sink, sink_closed, admitted, rt_trace, rt_msg>>
  /\ RtOnly

\* The realtime server takes the next message out of its mailbox.
RtSinkDeliver ==
  /\ sink # <<>>
  /\ sink' = Tail(sink)
  /\ UNCHANGED <<rt_pc, rt_send, attempts, rt_resp, sink_closed, admitted, rt_trace, rt_msg>>
  /\ RtOnly

\* The realtime server stops: its mailbox is dropped.
RtSinkClose ==
  /\ ~sink_closed
  /\ sink_closed' = TRUE
  /\ sink' = <<>>
  /\ UNCHANGED <<rt_pc, rt_send, attempts, rt_resp, admitted, rt_trace, rt_msg>>
  /\ RtOnly

RtNext ==
  \/ \E r \in Reqs : RtReceive(r)
  \/ \E r \in Reqs : RtParseOuter(r)
  \/ \E r \in Reqs : RtDecompress(r)
  \/ \E r \in Reqs : RtDecodeInner(r)
  \/ \E r \in Reqs : RtTrySend(r)
  \/ \E r \in Reqs : RtRespond(r)
  \/ RtSinkDeliver
  \/ RtSinkClose

SpecRealtime == RtInit /\ [][RtNext]_vars

\* The relay with RoutedReqs requests arriving: a request without a usable device-id
\* header carries a device id in its envelope, a request with one carries the same
\* device id or another one in its envelope.
DeviceHeaders == {"missing", "invalid", "devA"}

EnvelopeDeviceIds == {"devA", "devB"}

RoutingInit ==
  \E requests \in [Reqs -> [user_uuid : Reqs, device_header : DeviceHeaders,
                            envelope_device_id : EnvelopeDeviceIds]] :
    /\ \A r \in Reqs : requests[r].user_uuid = r
    /\ \A r \in Reqs : requests[r].device_header = "devA"
                          \/ requests[r].envelope_device_id = "devB"
    /\ \A r \in Reqs : r > RoutedReqs => requests[r] = DefaultRequest(r)
    /\ RtInitWith(1..RoutedReqs, requests)

SpecRouting == RoutingInit /\ [][RtNext]_vars

\* ------------------------------------------------------------------ publish handler
\* 4 * 1024 * 1024: limit of a metadata frame
MetaLimit == 4194304
\* 32 * 1024 * 1024: limit of a data frame
DataLimit == 33554432

MaxItems == 2

\* Client side of the streamed framing: a 4-byte little-endian length.
EncodeU32LE(n) ==
  << n % 256, (n \div 256) % 256, (n \div 65536) % 256, (n \div 16777216) % 256 >>

\* PayloadReader::read_u32_little_endian on 4 buffered bytes
ReadU32LittleEndian(h) == h[1] + h[2] * 256 + h[3] * 65536 + h[4] * 16777216

\* A frame as it lies in the body: its length bytes (fewer than 4 when the body
\* ends inside them), how many bytes of its content the body holds, and whether
\* that content parses as JSON.
Frame(n, body, json) == [header |-> EncodeU32LE(n), body |-> body, json_ok |-> json]

Sentinel == Frame(0, 0, FALSE)
SmallMeta == Frame(1, 1, TRUE)
PartialHeader == [header |-> <<1, 0>>, body |-> 0, json_ok |-> FALSE]

GoodMetas == { SmallMeta, Frame(MetaLimit, MetaLimit, TRUE) }
GoodDatas == { Frame(0, 0, FALSE), Frame(1, 1, FALSE), Frame(DataLimit, DataLimit, FALSE) }
GoodPairs == { <<fm, fd>> : fm \in GoodMetas, fd \in GoodDatas }

\* What follows the complete pairs of a body.
Endings ==
  { <<>>, <<Sentinel>>, <<Sentinel, SmallMeta>>, <<PartialHeader>>,
    <<Frame(MetaLimit + 1, 1, TRUE)>>,
    <<Frame(MetaLimit + 1, MetaLimit + 1, TRUE), Frame(1, 1, FALSE)>>,
    <<Frame(1, 0, TRUE)>>, <<Frame(1, 1, FALSE)>>,
    <<SmallMeta>>, <<SmallMeta, PartialHeader>>,
    <<SmallMeta, Frame(DataLimit + 1, 1, FALSE)>>,
    <<SmallMeta, Frame(DataLimit + 1, DataLimit + 1, FALSE), Sentinel>>,
    <<SmallMeta, Frame(1, 0, FALSE)>> }

Max(a, b) == IF a > b THEN a ELSE b

\* A metadata limit that lets every length through.
MetaTooLargeNever(len) == FALSE

\* A metadata limit that rejects a frame of exactly the limit.
MetaTooLargeOffByOne(len) == len >= MetaLimit

\* if meta_len > 4 * 1024 * 1024
MetaTooLarge(len) == len > MetaLimit

\* A data limit that lets every length through.
DataTooLargeNever(len) == FALSE

\* if data_len > 32 * 1024 * 1024
DataTooLarge(len) == len > DataLimit

PublishInit ==
  /\ p_pc = "meta"
  /\ \E items \in SeqsUpTo(GoodPairs, MaxItems), ending \in Endings :
       p_stream = Concat(items) \o ending
  /\ p_next = 1
  /\ p_read = 0
  /\ p_alloc = 0
  /\ p_meta = 0
  /\ accumulator = <<>>
  /\ published = <<>>
  /\ p_resp = NoResp
  /\ BatchIdle
  /\ CreateIdle
  /\ RtIdle
  /\ UpdateIdle

PublishFinish(resp) ==
  /\ p_pc' = "done"
  /\ p_resp' = resp

PublishOnly == UNCHANGED <<p_stream, bvars, cvars, rvars, uvars>>

\* The body ends before the 4 length bytes of the next frame are there.
HeaderMissing == p_next > Len(p_stream) \/ Len(p_stream[p_next].header) < 4

HeaderBytesLeft == IF p_next > Len(p_stream) THEN 0 ELSE Len(p_stream[p_next].header)

\* let meta_len = read_u32_little_endian().await?; the two checks on it;
\* read_exact(&mut meta_buffer).await?; serde_json::from_slice(&meta_buffer)?
PublishReadMeta ==
  /\ p_pc = "meta"
  /\ IF HeaderMissing
     THEN /\ p_read' = p_read + HeaderBytesLeft
          /\ PublishFinish(Err("Propagated", "read_u32_little_endian"))
          /\ UNCHANGED <<p_next, p_alloc, p_meta>>
     ELSE LET f == p_stream[p_next]
              meta_len == ReadU32LittleEndian(f.header)
          IN IF MetaTooLarge(meta_len)
             THEN /\ p_read' = p_read + 4
                  /\ PublishFinish(Err("InvalidRequest", "metadata too large"))
                  /\ UNCHANGED <<p_next, p_alloc, p_meta>>
             ELSE IF meta_len = 0
                  THEN /\ p_read' = p_read + 4
                       /\ p_pc' = "publish"
                       /\ UNCHANGED <<p_next, p_alloc, p_meta, p_resp>>
                  ELSE /\ p_alloc' = Max(p_alloc, meta_len)
                       /\ IF f.body < meta_len
                          THEN /\ p_read' = p_read + 4 + f.body
                               /\ PublishFinish(Err("Propagated", "read_exact"))
                               /\ UNCHANGED <<p_next, p_meta>>
                          ELSE /\ p_read' = p_read + 4 + meta_len
                               /\ IF f.json_ok
                                  THEN /\ p_meta' = p_next
                                       /\ p_next' = p_next + 1
                                       /\ p_pc' = "data"
                                       /\ UNCHANGED p_resp
                                  ELSE /\ PublishFinish(Err("Propagated",
                                                            "serde_json::from_slice"))
                                       /\ UNCHANGED <<p_next, p_meta>>
  /\ UNCHANGED <<accumulator, published>>
  /\ PublishOnly

\* A reader that ends the stream at a failed data read and publishes what it has.
PublishReadDataErrorEndsStream ==
  /\ p_pc = "data"
  /\ IF HeaderMissing
     THEN /\ p_read' = p_read + HeaderBytesLeft
          /\ p_pc' = "publish"
          /\ UNCHANGED <<p_next, p_alloc, accumulator, p_resp>>
     ELSE LET f == p_stream[p_next]
              data_len == ReadU32LittleEndian(f.header)
          IN IF DataTooLarge(data_len)
             THEN /\ p_read' = p_read + 4
                  /\ PublishFinish(Err("InvalidRequest", "data too large"))
                  /\ UNCHANGED <<p_next, p_alloc, accumulator>>
             ELSE /\ p_alloc' = Max(p_alloc, data_len)
                  /\ IF f.body < data_len
                     THEN /\ p_read' = p_read + 4 + f.body
                          /\ p_pc' = "publish"
                          /\ UNCHANGED <<p_next, accumulator, p_resp>>
                     ELSE /\ p_read' = p_read + 4 + data_len
                          /\ accumulator' = Append(accumulator,
                               [meta |-> p_meta, data |-> p_next, data_len |-> data_len])
                          /\ p_next' = p_next + 1
                          /\ p_pc' = "meta"
                          /\ UNCHANGED p_resp
  /\ UNCHANGED <<p_meta, published>>
  /\ PublishOnly

\* let data_len = read_u32_little_endian().await?; the check on it;
\* read_exact(&mut data_buffer).await?; accumulator.push(PublishCollabItem { meta, data })
PublishReadData ==
  /\ p_pc = "data"
  /\ IF HeaderMissing
     THEN /\ p_read' = p_read + HeaderBytesLeft
          /\ PublishFinish(Err("Propagated", "read_u32_little_endian"))
          /\ UNCHANGED <<p_next, p_alloc, accumulator>>
     ELSE LET f == p_stream[p_next]
              data_len == ReadU32LittleEndian(f.header)
          IN IF DataTooLarge(data_len)
             THEN /\ p_read' = p_read + 4
                  /\ PublishFinish(Err("InvalidRequest", "data too large"))
                  /\ UNCHANGED <<p_next, p_alloc, accumulator>>
             ELSE /\ p_alloc' = Max(p_alloc, data_len)
                  /\ IF f.body < data_len
                     THEN /\ p_read' = p_read + 4 + f.body
                          /\ PublishFinish(Err("Propagated", "read_exact"))
                          /\ UNCHANGED <<p_next, accumulator>>
                     ELSE /\ p_read' = p_read + 4 + data_len
                          /\ accumulator' = Append(accumulator,
                               [meta |-> p_meta, data |-> p_next, data_len |-> data_len])
                          /\ p_next' = p_next + 1
                          /\ p_pc' = "meta"
                          /\ UNCHANGED p_resp
  /\ UNCHANGED <<p_meta, published>>
  /\ PublishOnly

\* A handler that publishes one call per item.
PublishCollabsOneByOne ==
  /\ p_pc = "publish"
  /\ IF accumulator = <<>>
     THEN /\ PublishFinish(Err("InvalidRequest", "did not receive any data to publish"))
          /\ UNCHANGED published
     ELSE /\ published' = published \o [i \in 1..Len(accumulator) |-> <<accumulator[i]>>]
          /\ \E ok \in BOOLEAN :
               IF ok THEN PublishFinish(Ok)
               ELSE PublishFinish(Err("Propagated", "publish_collabs"))
  /\ UNCHANGED <<p_next, p_read, p_alloc, p_meta, accumulator>>
  /\ PublishOnly

\* A handler without the is_empty() check on the accumulator.
PublishCollabsNoEmptyCheck ==
  /\ p_pc = "publish"
  /\ published' = Append(published, accumulator)
  /\ \E ok \in BOOLEAN :
       IF ok THEN PublishFinish(Ok)
       ELSE PublishFinish(Err("Propagated", "publish_collabs"))
  /\ UNCHANGED <<p_next, p_read, p_alloc, p_meta, accumulator>>
  /\ PublishOnly

\* if accumulator.is_empty() { return Err(InvalidRequest(..)) }
\* publish_collabs(accumulator, &workspace_id, &user_uuid).await?; Ok(..)
PublishCollabs ==
  /\ p_pc = "publish"
  /\ IF accumulator = <<>>
     THEN /\ PublishFinish(Err("InvalidRequest", "did not receive any data to publish"))
          /\ UNCHANGED published
     ELSE /\ published' = Append(published, accumulator)
          /\ \E ok \in BOOLEAN :
               IF ok THEN PublishFinish(Ok)
               ELSE PublishFinish(Err("Propagated", "publish_collabs"))
  /\ UNCHANGED <<p_next, p_read, p_alloc, p_meta, accumulator>>
  /\ PublishOnly

PublishNext ==
  \/ PublishReadMeta
  \/ PublishReadData
  \/ PublishCollabs

SpecPublish == PublishInit /\ [][PublishNext]_vars

\* ------------------------------------------------------------------ update handler
\* The records a Json<CreateCollabParams> body can hold.
UpdateBodies ==
  { [object_id |-> o, collab_type |-> t, encode_ok |-> e, embeddings |-> "Submitted"] :
      o \in {workspace_id, "o1"}, t \in CollabTypes, e \in BOOLEAN }

UpdateInit ==
  /\ u_pc = "start"
  /\ u_body \in UpdateBodies
  /\ u_params = NoParams
  /\ u_calls = <<>>
  /\ u_queued = <<>>
  /\ u_resp = NoResp
  /\ BatchIdle
  /\ CreateIdle
  /\ RtIdle
  /\ PublishIdle

UpdateFinish(resp) ==
  /\ u_pc' = "done"
  /\ u_resp' = resp

UpdateOnly == UNCHANGED <<u_body, bvars, cvars, rvars, pvars>>

\* payload.into_inner().split(); get_user_uid(&user_uuid).await?; create_params.split()
UpdateStart ==
  /\ u_pc = "start"
  /\ \E uid_ok \in BOOLEAN :
       IF uid_ok
       THEN u_params' = u_body /\ u_pc' = "indexer_for" /\ UNCHANGED u_resp
       ELSE UpdateFinish(Err("UserUidError", "get_user_uid")) /\ UNCHANGED u_params
  /\ UNCHANGED <<u_calls, u_queued>>
  /\ UpdateOnly

\* if let Some(indexer) = state.indexer_provider.indexer_for(params.collab_type.clone())
UpdateIndexerFor ==
  /\ u_pc = "indexer_for"
  /\ \E some \in BOOLEAN : u_pc' = IF some THEN "can_index" ELSE "queue"
  /\ UNCHANGED <<u_params, u_calls, u_queued, u_resp>>
  /\ UpdateOnly

\* if state.indexer_provider.can_index_workspace(&workspace_id).await? { .. }
UpdateCanIndex ==
  /\ u_pc = "can_index"
  /\ \E r \in {"true", "false", "err"} :
       /\ u_calls' = u_calls \o <<"can_index_workspace", CanIndexAnswer(r)>>
       /\ CASE r = "true" -> u_pc' = "decode" /\ UNCHANGED u_resp
            [] r = "false" -> u_pc' = "queue" /\ UNCHANGED u_resp
            [] r = "err" -> UpdateFinish(Err("Propagated", "can_index_workspace"))
  /\ UNCHANGED <<u_params, u_queued>>
  /\ UpdateOnly

\* spawn_blocking(EncodedCollab::decode_from_bytes(..).map_err(InvalidRequest))
\*   .await.map_err(Internal)??  A record whose encoded state is valid decodes.
UpdateDecode ==
  /\ u_pc = "decode"
  /\ \E join_ok \in BOOLEAN, decodes \in (IF u_params.encode_ok THEN {TRUE} ELSE BOOLEAN) :
       IF ~join_ok THEN UpdateFinish(Err("Internal", "spawn_blocking"))
       ELSE IF ~decodes THEN UpdateFinish(Err("InvalidRequest", "Failed to decode collab"))
       ELSE u_pc' = "index" /\ UNCHANGED u_resp
  /\ UNCHANGED <<u_params, u_calls, u_queued>>
  /\ UpdateOnly

\* A handler that returns the error of indexer.index to the caller.
UpdateIndexPropagatesError ==
  /\ u_pc = "index"
  /\ u_calls' = Append(u_calls, "index")
  /\ \E r \in EmbeddingOutcomes :
       CASE r = "Some" -> /\ u_params' = [u_params EXCEPT !.embeddings = "Computed"]
                          /\ u_pc' = "queue" /\ UNCHANGED u_resp
         [] r = "None" -> /\ u_params' = [u_params EXCEPT !.embeddings = "NoEmbeddings"]
                          /\ u_pc' = "queue" /\ UNCHANGED u_resp
         [] r = "Err" -> UpdateFinish(Err("Propagated", "index")) /\ UNCHANGED u_params
  /\ UNCHANGED u_queued
  /\ UpdateOnly

\* match indexer.index(&mut_params.object_id, encoded).await
\*   { Ok(embeddings) => mut_params.embeddings = embeddings, Err(err) => warn!(..) }
UpdateIndex ==
  /\ u_pc = "index"
  /\ u_calls' = Append(u_calls, "index")
  /\ \E r \in EmbeddingOutcomes :
       u_params' = CASE r = "Some" -> [u_params EXCEPT !.embeddings = "Computed"]
                     [] r = "None" -> [u_params EXCEPT !.embeddings = "NoEmbeddings"]
                     [] r = "Err" -> u_params
  /\ u_pc' = "queue"
  /\ UNCHANGED <<u_queued, u_resp>>
  /\ UpdateOnly

\* queue_insert_or_update_collab(&workspace_id, &uid, params, false).await?; Ok(..)
UpdateQueueInsert ==
  /\ u_pc = "queue"
  /\ u_calls' = Append(u_calls, "queue_insert_or_update_collab")
  /\ \E r \in {"ok", "denied", "failed"} :
       CASE r = "ok" -> u_queued' = Append(u_queued, u_params) /\ UpdateFinish(Ok)
         [] r = "denied" ->
              /\ UpdateFinish(Err("PermissionDenied", "queue_insert_or_update_collab"))
              /\ UNCHANGED u_queued
         [] r = "failed" ->
              /\ UpdateFinish(Err("Propagated", "queue_insert_or_update_collab"))
              /\ UNCHANGED u_queued
  /\ UNCHANGED u_params
  /\ UpdateOnly

UpdateNext ==
  \/ UpdateStart
  \/ UpdateIndexerFor
  \/ UpdateCanIndex
  \/ UpdateDecode
  \/ UpdateIndex
  \/ UpdateQueueInsert

SpecUpdate == UpdateInit /\ [][UpdateNext]_vars

\* ------------------------------------------------------------------ the three submission paths
\* One request to one of the create, update and batch handlers.
SubmissionInit == BatchInit \/ CreateInit \/ UpdateInit

SubmissionNext == BatchNext \/ CreateNext \/ UpdateNext

SpecSubmission == SubmissionInit /\ [][SubmissionNext]_vars

\* ------------------------------------------------------------------ the two read loops
\* One request to the batch handler or to the publish handler; the runtime keeps
\* polling the handler and the finite body keeps yielding its items.
\* The scan looks at the lengths of the frames alone: payloads of length 0, 1 and 2.
ReadLoopPayloads == { <<>>, <<3>>, <<3, 0>> }

ReadLoopsInit ==
  \/ BatchInit /\ \A i \in 1..Len(frames) : frames[i] \in ReadLoopPayloads
  \/ PublishInit

ReadLoopsNext == BatchNext \/ PublishNext

SpecReadLoops == ReadLoopsInit /\ [][ReadLoopsNext]_vars /\ WF_vars(ReadLoopsNext)

\* ================================================================== properties
\* ------------------------------------------------------------------ batch
\* The payloads the recorded spans identify, in recording order.
Recovered == [i \in 1..Len(offset_len_list) |-> Slice(payload_buffer, offset_len_list[i])]

\* Offset in the body just past the i-th frame the client sent.
FrameEnd(i) == Len(EncodeFrames(SubSeq(frames, 1, i)))

\* Number of sent frames whose every byte the transport has delivered.
FramesDelivered == Cardinality({i \in 1..Len(frames) : FrameEnd(i) <= pos})

\* A payload that decompresses, deserializes and passes both validations.
ValidPayload(p) ==
  /\ Decompress(p).ok
  /\ FromBytes(Decompress(p).data).ok
  /\ ParamsValidate(FromBytes(Decompress(p).data).params)
  /\ ValidateEncodeCollab(FromBytes(Decompress(p).data).params)

ObjectIds(list) == [i \in 1..Len(list) |-> list[i].object_id]

Called(name) == \E i \in 1..Len(b_calls) : b_calls[i] = name

BatchValidated == b_pc \in {"empty_check", "can_index", "fetch_embeddings", "insert"}

\* C1: once the whole body has arrived, whatever the chunking was, the spans
\* identify exactly the payloads of the frames sent, byte for byte and in order.
C1_FrameRoundTrip ==
  pos = Len(stream) =>
    /\ Len(offset_len_list) = Len(frames)
    /\ \A i \in 1..Len(frames) :
         /\ offset_len_list[i][1] + offset_len_list[i][2] <= Len(payload_buffer)
         /\ Slice(payload_buffer, offset_len_list[i]) = frames[i]

C1_Witness ==
  /\ b_pc = "validate"
  /\ tail = <<>>
  /\ frames = << <<3, 0>>, <<>> >>
  /\ Recovered = frames

\* C2: a span is recorded only when its header and all its payload bytes are in
\* the buffer, it is the frame that was sent, the buffer keeps every byte it
\* received (the incomplete trailing frame included), and a frame is recorded as
\* soon as the chunk that completes it has been scanned.
C2_PartialFrameHoldback ==
  /\ current_offset <= Len(payload_buffer)
  /\ payload_buffer = SubSeq(stream, 1, pos)
  /\ \A i \in 1..Len(offset_len_list) :
       /\ offset_len_list[i][1] >= 4
       /\ offset_len_list[i][1] + offset_len_list[i][2] <= Len(payload_buffer)
       /\ i <= Len(frames)
       /\ Slice(payload_buffer, offset_len_list[i]) = frames[i]
  /\ Len(offset_len_list) = FramesDelivered
  /\ current_offset = FrameEnd(Len(offset_len_list))

C2_Witness ==
  /\ b_pc = "recv"
  /\ Len(offset_len_list) = 1
  /\ Len(frames) = 2
  /\ Len(frames[2]) = 2
  /\ Len(payload_buffer) = current_offset + 5

BatchExpected == SelectSeq(frames, ValidPayload)

MixedBatch ==
  /\ \E i \in 1..Len(frames) : ValidPayload(frames[i])
  /\ \E i \in 1..Len(frames) : ~ValidPayload(frames[i])

CollaboratorFailures ==
  {"get_user_uid", "compress_type_from_header_value", "Failed to decompress data",
   "can_index_workspace", "batch_insert_new_collab"}

\* C3: for a batch with valid and invalid records the accepted list, and the
\* list handed to batch_insert_new_collab, holds exactly the valid records, each
\* once; the handler answers Ok when batch_insert_new_collab returns Ok, and no
\* failure of the request is a rejection of the batch by validation (the request
\* fails only when a collaborator call fails).
C3_BatchPartialAcceptance ==
  MixedBatch =>
    /\ BatchValidated => ObjectIds(collab_params_list) = BatchExpected
    /\ Called("batch_insert_new_collab") => ObjectIds(handed) = BatchExpected
    /\ b_resp # Err("InvalidRequest", "Empty collab params list")
    /\ b_pc = "done" =>
         \/ b_resp = Ok /\ Called("batch_insert_new_collab")
         \/ b_resp.msg \in CollaboratorFailures

C3_Witness ==
  /\ frames = << <<2>>, <<3>> >>
  /\ b_pc = "done"
  /\ b_resp = Ok
  /\ ObjectIds(handed) = << <<3>> >>

AllRejected ==
  /\ Len(frames) >= 1
  /\ \A i \in 1..Len(frames) : ~ValidPayload(frames[i])

\* C4: when every record of the batch is rejected, the enricher and
\* batch_insert_new_collab are never called and the response is never Ok: the
\* request ends with an error.
C4_AllRejectedFails ==
  AllRejected =>
    /\ b_calls = <<>>
    /\ handed = <<>>
    /\ b_resp.kind # "Ok"
    /\ b_pc \notin {"can_index", "fetch_embeddings", "insert"}
    /\ b_pc = "done" => b_resp.kind \notin {"Ok", "None"}

C4_Witness ==
  /\ frames = << <<>>, <<2>> >>
  /\ b_pc = "done"
  /\ b_resp = Err("InvalidRequest", "Empty collab params list")

\* C5: when exactly one embedding computation of the accepted set fails, every
\* accepted record is persisted, those whose computation succeeded with their
\* computed embeddings, the failing one without.
C5_PerRecordBestEffort ==
  ( /\ Called("batch_insert_new_collab")
    /\ Cardinality({i \in 1..Len(embedding_results) : embedding_results[i] = "Err"}) = 1 )
  =>
    /\ Len(handed) = Len(embedding_results)
    /\ \A i \in 1..Len(handed) :
         /\ embedding_results[i] = "Some" => handed[i].embeddings = "Computed"
         /\ embedding_results[i] = "Err" => handed[i].embeddings = "Submitted"

\* ------------------------------------------------------------------ create
CreateCalled(name) == \E i \in 1..Len(c_calls) : c_calls[i] = name

\* C6: once a submission has parsed into a record whose object_id equals the
\* workspace_id and whose type is not Folder, the handler makes no call to
\* structural validation, the enricher or storage, opens no transaction, stores
\* nothing and ends with InvalidRequest, for every such type.
C6_ObjectEqualsWorkspaceRejected ==
  ( /\ params # NoParams
    /\ params.object_id = workspace_id
    /\ params.collab_type # "Folder" )
  =>
    /\ c_calls = <<>>
    /\ tx = "none"
    /\ stored = InitialStored
    /\ c_pc \in {"precondition", "done"}
    /\ c_pc = "done" =>
         c_resp = Err("InvalidRequest", "object_id cannot be the same as workspace_id")

C6_Witness ==
  /\ c_pc = "done"
  /\ params.object_id = workspace_id
  /\ params.collab_type = "Database"
  /\ params.encode_ok
  /\ c_resp = Err("InvalidRequest", "object_id cannot be the same as workspace_id")

\* C7: rows of this submission are visible only when the insert and the commit
\* both succeeded, and then it is the complete record and the response is Ok;
\* when the insert or the commit failed the transaction is not committed and
\* storage is as it was before the request.
C7_CreateAtomic ==
  /\ stored # InitialStored =>
       /\ insert_result = "ok"
       /\ commit_result = "ok"
       /\ tx = "committed"
       /\ stored = InitialStored \cup {Row(params, "complete")}
  /\ (insert_result \in {"denied", "failed"} \/ commit_result = "failed") =>
       /\ tx # "committed"
       /\ stored = InitialStored
       /\ c_resp.kind # "Ok"
  /\ commit_result = "ok" =>
       /\ c_pc = "done"
       /\ c_resp = Ok
       /\ Row(params, "complete") \in stored
  /\ c_resp = Ok => commit_result = "ok" /\ insert_result = "ok"

C7_Witness ==
  /\ c_pc = "done"
  /\ insert_result = "failed"
  /\ tx_writes # {}
  /\ tx = "rolled_back"
  /\ stored = InitialStored

\* C8: when the capability (caller, workspace, Write) is denied, no state of the
\* request has the record in storage or an Ok response, and a request that
\* reached the store ends with PermissionDenied, a kind other than InvalidRequest.
C8_PermissionBoundary ==
  access = "denied" =>
    /\ stored = InitialStored
    /\ c_resp.kind # "Ok"
    /\ tx # "committed"
    /\ CreateCalled("insert_new_collab_with_transaction") =>
         /\ c_pc = "done"
         /\ c_resp.kind = "PermissionDenied"
         /\ c_resp.kind # "InvalidRequest"

C8_Witness ==
  /\ access = "denied"
  /\ c_pc = "done"
  /\ insert_result = "denied"
  /\ c_resp.kind = "PermissionDenied"
  /\ stored = InitialStored

\* ------------------------------------------------------------------ realtime
\* C9: a request whose try_send found the mailbox full ends with an error of an
\* Overload class, a kind no other failure of the handler uses, and its message
\* is not in the sink.
C9_OverloadFailFast ==
  \A r \in Reqs :
    (rt_pc[r] = "done" /\ rt_send[r] = "full") =>
      /\ rt_resp[r].kind \notin {"Ok", "None"}
      /\ r \notin admitted
      /\ \A q \in Reqs :
           (rt_pc[q] = "done" /\ rt_send[q] # "full" /\ rt_resp[q].kind # "Ok")
             => rt_resp[q].kind # rt_resp[r].kind

InSink(r) == \E i \in 1..Len(sink) : sink[i] = r

\* C10: a request makes at most one try_send; neither the attempt nor the
\* response that follows it waits for the sink (both steps can be taken in every
\* state the request is at them, whatever the sink holds); the response is Ok
\* exactly when that one attempt put the message into the sink.
C10_NoWaitNoRetry ==
  \A r \in Reqs :
    /\ attempts[r] <= 1
    /\ (attempts[r] = 1) = (rt_send[r] # "none")
    /\ rt_pc[r] = "try_send" => attempts[r] = 0 /\ ENABLED RtTrySend(r)
    /\ rt_pc[r] = "respond" => attempts[r] = 1 /\ ENABLED RtRespond(r)
    /\ rt_pc[r] = "done" =>
         /\ (rt_resp[r] = Ok) = (rt_send[r] = "ok")
         /\ (rt_send[r] = "ok") = (r \in admitted)
    /\ InSink(r) => r \in admitted

C10_Witness ==
  /\ rt_pc[1] = "done" /\ rt_send[1] = "full" /\ rt_resp[1].kind = "Internal"
  /\ rt_pc[2] = "done" /\ rt_resp[2] = Ok
  /\ sink = <<>>

HasEvent(r, e) == \E i \in 1..Len(rt_trace[r]) : rt_trace[r][i] = e

RtFailureEvents ==
  {"outer_err", "header_err", "decompress_err", "inner_err", "join_err"}

\* Stages of a request up to and including its enqueue attempt.
RoutedTraces ==
  { <<"outer_ok", "header_absent", "inner_ok", "try_send">>,
    <<"outer_ok", "header_brotli", "decompress_ok", "inner_ok", "try_send">> }

\* C11: a request offers its message to the sink only after the outer envelope
\* decoded, the payload was decompressed exactly when the encoding header is
\* present, and the inner message decoded, in this order; a request one of whose
\* stages failed makes no enqueue attempt and leaves nothing in the sink.
C11_DecodePrecedesRouting ==
  \A r \in Reqs :
    /\ (attempts[r] > 0 \/ r \in admitted \/ InSink(r) \/ rt_pc[r] = "respond")
         => rt_trace[r] \in RoutedTraces
    /\ (\E e \in RtFailureEvents : HasEvent(r, e)) =>
         /\ attempts[r] = 0
         /\ ~HasEvent(r, "try_send")
         /\ r \notin admitted
         /\ ~InSink(r)
         /\ rt_pc[r] = "done"
         /\ rt_resp[r].kind \notin {"Ok", "None"}

C11_Witness ==
  /\ rt_trace[1] = <<"outer_ok", "header_brotli", "decompress_ok", "inner_ok", "try_send">>
  /\ InSink(1)
  /\ rt_trace[2] = <<"outer_ok", "header_absent", "inner_err">>
  /\ rt_pc[2] = "done"

\* C12: every request that ended on a decode failure of the realtime message
\* (outer envelope or inner message) answers with an InvalidRequest error.
C12_DecodeFailureIsInvalidRequest ==
  \A r \in Reqs :
    (rt_pc[r] = "done" /\ (HasEvent(r, "outer_err") \/ HasEvent(r, "inner_err")))
      => rt_resp[r].kind = "InvalidRequest"

\* ------------------------------------------------------------------ publish stream
FrameBytes(f) == Len(f.header) + f.body

RECURSIVE Offset(_)
\* Number of body bytes in front of the k-th frame.
Offset(k) == IF k <= 1 THEN 0 ELSE Offset(k - 1) + FrameBytes(p_stream[k - 1])

\* Frames alternate: odd positions are read as metadata, even ones as data.
IsMetaPos(k) == k % 2 = 1

Declared(k) == ReadU32LittleEndian(p_stream[k].header)

HasHeader(k) == k <= Len(p_stream) /\ Len(p_stream[k].header) = 4

Oversized(k) ==
  /\ HasHeader(k)
  /\ IF IsMetaPos(k) THEN Declared(k) > MetaLimit ELSE Declared(k) > DataLimit

AtSentinel == HasHeader(p_next) /\ IsMetaPos(p_next) /\ Declared(p_next) = 0

ReadFailures == { "read_u32_little_endian", "read_exact", "serde_json::from_slice" }

\* C13: a metadata frame declaring more than 4 MiB, or a data frame declaring
\* more than 32 MiB, ends the submission with an InvalidRequest error when
\* exactly its 4 length bytes have been read; no buffer larger than the limits
\* is ever allocated, and nothing is published, the items accumulated before it
\* included.
C13_OversizedRejected ==
  /\ p_alloc <= DataLimit
  /\ (p_meta # 0 /\ p_pc # "done" => Declared(p_meta) <= MetaLimit)
  /\ (p_pc = "done" /\ Oversized(p_next)) =>
       /\ p_resp = Err("InvalidRequest",
                       IF IsMetaPos(p_next) THEN "metadata too large" ELSE "data too large")
       /\ p_read = Offset(p_next) + 4
       /\ published = <<>>
  /\ (p_pc \in {"publish"} \/ published # <<>>) =>
       \A k \in 1..p_next : ~Oversized(k)

C13_Witness ==
  /\ p_pc = "done"
  /\ Oversized(p_next)
  /\ ~IsMetaPos(p_next)
  /\ p_stream[p_next].body = DataLimit + 1
  /\ p_next < Len(p_stream)
  /\ Len(accumulator) >= 1
  /\ p_resp.kind = "InvalidRequest"

\* C14: a metadata length of zero ends the reading without a read error: the
\* handler has consumed the sentinel's 4 bytes and nothing behind them, holds
\* every pair in front of the sentinel, and hands them to publish_collabs in
\* one call.
C14_SentinelEndsStream ==
  /\ (p_pc = "publish") => AtSentinel
  /\ (AtSentinel /\ p_pc \in {"publish", "done"}) =>
       /\ p_read = Offset(p_next) + 4
       /\ Len(accumulator) * 2 = p_next - 1
       /\ p_resp.msg \notin ReadFailures
       /\ (p_pc = "done" /\ accumulator # <<>>) =>
            /\ published = <<accumulator>>
            /\ p_resp \in {Ok, Err("Propagated", "publish_collabs")}

C14_Witness ==
  /\ p_pc = "done"
  /\ AtSentinel
  /\ p_next < Len(p_stream)
  /\ Len(accumulator) = 2
  /\ published = <<accumulator>>
  /\ p_resp = Ok

\* C15: the k-th item is the (2k-1)-th frame as metadata and the 2k-th frame as
\* data, in stream order; what is published is the accumulated list, and a
\* stream that fails inside a pair (the body ends after a metadata frame, a
\* short read, unparseable metadata) ends in an error with nothing published.
C15_StrictPairing ==
  /\ \A k \in 1..Len(accumulator) :
       /\ accumulator[k].meta = 2 * k - 1
       /\ accumulator[k].data = 2 * k
       /\ accumulator[k].data_len = p_stream[2 * k].body
       /\ p_stream[2 * k - 1].json_ok
  /\ published \in {<<>>, <<accumulator>>}
  /\ (p_pc = "done" /\ ~AtSentinel /\ ~Oversized(p_next)) =>
       /\ p_resp.kind = "Propagated"
       /\ p_resp.msg \in ReadFailures
       /\ published = <<>>
  /\ published # <<>> => AtSentinel

C15_Witness ==
  /\ p_pc = "done"
  /\ ~IsMetaPos(p_next)
  /\ p_next > Len(p_stream)
  /\ Len(accumulator) = 1
  /\ p_resp = Err("Propagated", "read_u32_little_endian")
  /\ published = <<>>

\* ------------------------------------------------------------------ batch ingestion, continued
\* The body ended inside a frame.
EndsIncomplete == pos = Len(stream) /\ tail # <<>>

\* C16: when the receipt of a body chunk failed, or the body ended with an
\* incomplete frame, the batch request never calls batch_insert_new_collab and
\* never answers Ok.
C16_FramingFailuresPropagate ==
  (chunk_failed \/ EndsIncomplete) =>
    /\ ~Called("batch_insert_new_collab")
    /\ b_resp # Ok

Accepted == { i \in 1..Len(frames) : ValidPayload(frames[i]) }

\* C17: the result of a validation task depends on its span alone, whatever
\* tasks ran before it, and the collected list holds one record for each frame
\* that decompresses, deserializes, passes field validation and passes
\* encoded-state validation, and no other record.
C17_PureFilter ==
  /\ b_pc = "validate" => Len(results) = Len(frames)
  /\ \A i \in 1..Len(results) :
       results[i] # Pending =>
         /\ i <= Len(frames)
         /\ (results[i].tag = "Some") <=> ValidPayload(frames[i])
         /\ results[i].tag = "Some" => results[i].params.object_id = frames[i]
  /\ BatchValidated =>
       /\ Len(collab_params_list) = Cardinality(Accepted)
       /\ { collab_params_list[k].object_id : k \in 1..Len(collab_params_list) }
            = { frames[i] : i \in Accepted }

C17_Witness ==
  /\ frames = << <<3>>, <<3, 0>> >>
  /\ b_pc = "validate"
  /\ results[1] = Pending
  /\ results[2].tag = "Some"

\* if collab_params_list.is_empty(): the answer to a body without a frame.
EmptyBatchError == Err("InvalidRequest", "Empty collab params list")

\* C18: a batch without a frame is answered with EmptyBatchError, and a batch
\* whose records were all rejected by validation is answered with a different
\* error.
C18_AllRejectedDistinctFromEmpty ==
  /\ (b_pc = "done" /\ frames = <<>> /\ collab_params_list = <<>> /\ results = <<>>
        /\ b_resp.msg \notin {"get_user_uid", "compress_type_from_header_value",
                              "Failed to decompress data"})
       => b_resp = EmptyBatchError
  /\ (b_pc = "done" /\ AllRejected) => b_resp # EmptyBatchError

\* ------------------------------------------------------------------ enrichment failures
UpdateCalled(name) == \E i \in 1..Len(u_calls) : u_calls[i] = name

\* The embedding computation of the request returned an error.
CreateEmbeddingFailed ==
  CreateCalled("create_collab_embeddings") /\ params.embeddings = "Submitted"

UpdateEmbeddingFailed == UpdateCalled("index") /\ u_params.embeddings = "Submitted"

BatchEmbeddingFailed == \E i \in 1..Len(embedding_results) : embedding_results[i] = "Err"

\* C19: after an embedding computation returned an error, the create, update and
\* batch handlers go on to persistence with the record(s), and the response is
\* Ok exactly when persistence succeeded and otherwise the error of persistence.
C19_EmbeddingFailureNotSurfaced ==
  /\ CreateEmbeddingFailed =>
       /\ c_pc \in {"begin", "insert", "commit", "done"}
       /\ c_pc = "done" =>
            /\ CreateCalled("begin")
            /\ (c_resp = Ok) <=> (insert_result = "ok" /\ commit_result = "ok")
            /\ c_resp = Ok => Row(params, "complete") \in stored
            /\ c_resp.msg \in {"", "acquire transaction to upsert collab",
                               "insert_new_collab_with_transaction",
                               "fail to commit the transaction to upsert collab"}
  /\ BatchEmbeddingFailed =>
       /\ b_pc \in {"insert", "done"}
       /\ b_pc = "done" =>
            /\ Called("batch_insert_new_collab")
            /\ handed = collab_params_list
            /\ Len(handed) = Cardinality(Accepted)
            /\ b_resp.msg \in {"", "batch_insert_new_collab"}
  /\ UpdateEmbeddingFailed =>
       /\ u_pc \in {"queue", "done"}
       /\ u_pc = "done" =>
            /\ UpdateCalled("queue_insert_or_update_collab")
            /\ (u_resp = Ok) <=> (u_queued = <<u_params>>)
            /\ u_resp.msg \in {"", "queue_insert_or_update_collab"}

C19_Witness ==
  /\ u_pc = "done"
  /\ UpdateEmbeddingFailed
  /\ u_queued = <<u_body>>
  /\ u_resp = Ok

\* C20: once a handler has called into the enricher, the eligibility check
\* included, it reaches persistence: no request of a validated record ends
\* after can_index_workspace without the call that persists it.
C20_UnavailabilityNeverBlocks ==
  /\ (c_pc = "done" /\ CreateCalled("can_index_workspace")) => CreateCalled("begin")
  /\ (b_pc = "done" /\ Called("can_index_workspace")) => Called("batch_insert_new_collab")
  /\ (u_pc = "done" /\ UpdateCalled("can_index_workspace") /\ u_params.encode_ok
        /\ u_resp.msg # "spawn_blocking")
       => UpdateCalled("queue_insert_or_update_collab")

\* ------------------------------------------------------------------ enrichment, continued
NotEligible == CanIndexAnswer("false")

\* C21: when the oracle answered that indexing is not enabled, no embedding
\* computation is invoked, the records keep the embeddings they were submitted
\* with, and the handler goes on to the persistence call, whose outcome is the
\* response.
C21_NotEligibleIsNoOp ==
  /\ CreateCalled(NotEligible) =>
       /\ ~CreateCalled("create_collab_embeddings")
       /\ params = c_body.params
       /\ c_pc \in {"begin", "insert", "commit", "done"}
       /\ c_pc = "done" =>
            /\ CreateCalled("begin")
            /\ c_resp.msg # "can_index_workspace"
            /\ c_resp = Ok => Row(c_body.params, "complete") \in stored
  /\ Called(NotEligible) =>
       /\ ~Called("fetch_embeddings")
       /\ embedding_results = <<>>
       /\ \A i \in 1..Len(collab_params_list) : collab_params_list[i].embeddings = "Submitted"
       /\ b_pc \in {"insert", "done"}
       /\ b_pc = "done" =>
            /\ Called("batch_insert_new_collab")
            /\ handed = collab_params_list
            /\ b_resp.msg \in {"", "batch_insert_new_collab"}
  /\ UpdateCalled(NotEligible) =>
       /\ ~UpdateCalled("index")
       /\ u_params = u_body
       /\ u_pc \in {"queue", "done"}
       /\ u_pc = "done" =>
            /\ UpdateCalled("queue_insert_or_update_collab")
            /\ u_resp.msg \in {"", "queue_insert_or_update_collab"}

C21_Witness ==
  /\ b_pc = "done"
  /\ Called(NotEligible)
  /\ Len(handed) = 2
  /\ \A i \in 1..Len(handed) : handed[i].embeddings = "Submitted"
  /\ b_resp = Ok

\* ------------------------------------------------------------------ create, continued
EnricherCalls == {"can_index_workspace", "create_collab_embeddings"}

TransactionCalls == {"begin", "insert_new_collab_with_transaction", "commit"}

\* C22: in single-record create every call into the enricher comes before the
\* transaction is begun: the call log never has an enricher call behind a
\* transaction call, the transaction is begun only after the eligibility check,
\* and while the transaction is open the handler is at the insert or the commit.
C22_EnrichmentBeforeTransaction ==
  /\ \A i, j \in 1..Len(c_calls) :
       (c_calls[i] \in TransactionCalls /\ c_calls[j] \in EnricherCalls) => j < i
  /\ CreateCalled("begin") => CreateCalled("can_index_workspace")
  /\ tx = "open" => c_pc \in {"insert", "commit"}
  /\ c_pc \in {"can_index", "embeddings"} => tx = "none"

C22_Witness ==
  /\ c_pc = "done"
  /\ c_resp = Ok
  /\ c_calls = <<"check_encode_collab", "can_index_workspace", CanIndexAnswer("true"),
                 "create_collab_embeddings", "begin",
                 "insert_new_collab_with_transaction", "commit">>
  /\ params.embeddings = "Submitted"
  /\ tx = "committed"

\* ------------------------------------------------------------------ record invariant
\* object_id != workspace_id unless collab_type == Folder
RecordInvariant(cp) == cp.object_id # workspace_id \/ cp.collab_type = "Folder"

\* C23: every record the single-record create or the single-record update hands
\* to storage has an object_id different from the workspace_id, unless its type
\* is Folder.
C23_RecordInvariantAllPaths ==
  /\ CreateCalled("insert_new_collab_with_transaction") => RecordInvariant(params)
  /\ \A row \in (stored \ InitialStored) \cup tx_writes : RecordInvariant(row)
  /\ UpdateCalled("queue_insert_or_update_collab") => RecordInvariant(u_params)
  /\ \A i \in 1..Len(u_queued) : RecordInvariant(u_queued[i])

\* C24: a single-record create of a Folder whose object_id equals the
\* workspace_id passes the precondition: the request does not end before
\* structural validation is called.
C24_FolderExempt ==
  ( /\ c_pc = "done"
    /\ params # NoParams
    /\ params.object_id = workspace_id
    /\ params.collab_type = "Folder" )
  =>
    /\ CreateCalled("check_encode_collab")
    /\ c_resp # Err("InvalidRequest", "object_id cannot be the same as workspace_id")

\* C25: a record reaches the storage call of create or update only after its
\* encoded state passed structural validation.
C25_NoStorageWithoutValidation ==
  /\ CreateCalled("insert_new_collab_with_transaction") =>
       /\ CreateCalled("check_encode_collab")
       /\ params.encode_ok
  /\ UpdateCalled("queue_insert_or_update_collab") => u_params.encode_ok
  /\ \A i \in 1..Len(u_queued) : u_queued[i].encode_ok

\* ------------------------------------------------------------------ batch compression header
\* A payload that is an uncompressed JSON record.
PlainJson(p) == p # <<>> /\ p[1] = 4

PlainJsonBatch ==
  /\ b_header = "absent"
  /\ Len(frames) >= 1
  /\ \A i \in 1..Len(frames) : PlainJson(frames[i])
  /\ tail = <<>>

\* C26: a batch without the compression header whose frames hold uncompressed
\* JSON records is not rejected for the missing header and its records are not
\* dropped: when the request ends Ok every record was handed to storage, and
\* it never ends with the header error or the empty-list error.
C26_HeaderAbsentMeansPlainJson ==
  (PlainJsonBatch /\ b_pc = "done") =>
    /\ b_resp.msg \notin {"compress_type_from_header_value", "Empty collab params list"}
    /\ b_resp = Ok => Len(handed) = Len(frames)

\* ------------------------------------------------------------------ submission state machine
\* Position of a handler in the order Received, Framed, Decompressed,
\* Validated, Enriched, storage, terminal.
CreateRank(pc) ==
  CASE pc \in {"idle", "start"} -> 0
    [] pc = "parse" -> 1
    [] pc = "precondition" -> 2
    [] pc = "check_encode" -> 3
    [] pc = "can_index" -> 4
    [] pc = "embeddings" -> 5
    [] pc = "begin" -> 6
    [] pc = "insert" -> 7
    [] pc = "commit" -> 8
    [] pc = "done" -> 9

BatchRank(pc) ==
  CASE pc \in {"idle", "start"} -> 0
    [] pc = "recv" -> 1
    [] pc = "validate" -> 2
    [] pc = "empty_check" -> 3
    [] pc = "can_index" -> 4
    [] pc = "fetch_embeddings" -> 5
    [] pc = "insert" -> 6
    [] pc = "done" -> 7

Count(calls, name) == Cardinality({ i \in 1..Len(calls) : calls[i] = name })

\* A terminal state is Persisted (Ok) or Rejected (an error), never both or
\* neither; Persisted comes through validation and the storage call; the
\* storage operation is invoked at most once.
SubmissionStates ==
  /\ (c_pc = "done") <=> (c_resp # NoResp)
  /\ (b_pc = "done") <=> (b_resp # NoResp)
  /\ c_resp = Ok =>
       /\ CreateCalled("check_encode_collab")
       /\ params.encode_ok
       /\ CreateCalled("insert_new_collab_with_transaction")
  /\ b_resp = Ok =>
       /\ results # <<>>
       /\ \A i \in 1..Len(results) : results[i] # Pending
       /\ \A i \in 1..Len(handed) : handed[i].fields_ok /\ handed[i].encode_ok
       /\ Called("batch_insert_new_collab")
  /\ Count(c_calls, "insert_new_collab_with_transaction") <= 1
  /\ Count(c_calls, "begin") <= 1
  /\ Count(c_calls, "commit") <= 1
  /\ Count(b_calls, "batch_insert_new_collab") <= 1

\* Every step moves its handler forward, and a handler in its terminal state
\* takes no further step: its response and its calls stay as they are.
SubmissionStep ==
  /\ CreateRank(c_pc') >= CreateRank(c_pc)
  /\ BatchRank(b_pc') >= BatchRank(b_pc)
  /\ c_pc # c_pc' => CreateRank(c_pc') > CreateRank(c_pc)
  /\ b_pc # b_pc' => BatchRank(b_pc') > BatchRank(b_pc)
  /\ c_pc = "done" => UNCHANGED cvars
  /\ b_pc = "done" => UNCHANGED bvars

\* C27: a create or batch submission moves only forward through its stages and
\* ends in exactly one terminal state, Persisted or Rejected; Persisted is
\* reached only through validation, the storage operation is invoked at most
\* once, and nothing is invoked after the terminal state.
C27_SubmissionStateMachine == []SubmissionStates /\ [][SubmissionStep]_vars

C27_Witness ==
  /\ b_pc = "done"
  /\ b_resp = Ok
  /\ b_calls = <<"can_index_workspace", CanIndexAnswer("true"), "fetch_embeddings",
                 "batch_insert_new_collab">>
  /\ Len(handed) = 1
  /\ Len(frames) = 2

\* ------------------------------------------------------------------ dropped connection
\* C28: when the body ends inside a frame, no span reaches into the bytes of
\* that frame, validation gets the complete frames alone, and every record
\* handed to storage is the record of a complete frame.
C28_PartialFrameNeverPersisted ==
  tail # <<>> =>
    /\ \A i \in 1..Len(offset_len_list) :
         offset_len_list[i][1] + offset_len_list[i][2] <= Len(EncodeFrames(frames))
    /\ Len(offset_len_list) <= Len(frames)
    /\ Len(results) <= Len(frames)
    /\ Len(collab_params_list) <= Cardinality(Accepted)
    /\ \A k \in 1..Len(handed) : \E i \in Accepted : handed[k].object_id = frames[i]
    /\ Len(handed) <= Cardinality(Accepted)

C28_Witness ==
  /\ tail = <<0, 0, 0, 2, 3>>
  /\ frames = << <<3, 0>> >>
  /\ b_pc = "done"
  /\ b_resp = Ok
  /\ ObjectIds(handed) = << <<3, 0>> >>

\* ------------------------------------------------------------------ join error
\* The request ended while a validation task had not delivered its result: the
\* offloaded task did not complete.
JoinFailed == b_pc = "done" /\ \E i \in 1..Len(results) : results[i] = Pending

JoinErrorResponse == Err("InvalidRequest", "Failed to decompress data")

\* C29: when the offloaded validation task does not complete, the request ends
\* with an error that is not the one of an empty batch, no collaborator is
\* called and nothing is handed to storage; and that error is given for no
\* other reason.
C29_JoinErrorReported ==
  /\ JoinFailed =>
       /\ b_resp = JoinErrorResponse
       /\ b_resp # EmptyBatchError
       /\ collab_params_list = <<>>
       /\ b_calls = <<>>
       /\ handed = <<>>
  /\ b_resp = JoinErrorResponse =>
       /\ b_pc = "done"
       /\ pos = Len(stream)
       /\ b_calls = <<>>
       /\ handed = <<>>

C29_Witness ==
  /\ JoinFailed
  /\ frames = << <<3>>, <<3, 0>> >>
  /\ results[1] = Pending
  /\ results[2].tag = "Some"
  /\ b_resp = JoinErrorResponse

\* ------------------------------------------------------------------ concurrent enqueue
OkResponders == { r \in Reqs : rt_resp[r] = Ok }

\* Requests whose message was queued and whose response is still to come.
OkPending == { r \in Reqs : rt_pc[r] = "respond" /\ rt_send[r] = "ok" }

\* C30: under every interleaving of the requests the sink holds at most
\* SinkCapacity messages and none of them twice; the messages admitted are those
\* of the requests answered Ok or about to be; once every request has ended the
\* Ok responses are as many as the admitted messages; a request that found the
\* sink full is answered with an error and its message is not in the sink.
C30_BoundedSink ==
  /\ Len(sink) <= SinkCapacity
  /\ \A i, j \in 1..Len(sink) : sink[i] = sink[j] => i = j
  /\ \A i \in 1..Len(sink) : sink[i] \in admitted
  /\ admitted = OkResponders \cup OkPending
  /\ (\A r \in Reqs : rt_pc[r] = "done") => Cardinality(OkResponders) = Cardinality(admitted)
  /\ \A r \in Reqs :
       rt_send[r] = "full" =>
         /\ ~InSink(r)
         /\ r \notin admitted
         /\ rt_resp[r] # Ok
         /\ rt_pc[r] = "done" => rt_resp[r].kind \notin {"Ok", "None"}

C30_Witness ==
  /\ rt_pc[1] = "done" /\ rt_resp[1] = Ok
  /\ rt_pc[2] = "done" /\ rt_send[2] = "full"
  /\ rt_pc[3] = "done" /\ rt_resp[3] = Ok
  /\ admitted = {1, 3}
  /\ sink = <<3>>

\* ------------------------------------------------------------------ span invariants
SpanEnd(i) == IF i = 0 THEN 0 ELSE offset_len_list[i][1] + offset_len_list[i][2]

IsPrefix(a, b) == Len(a) <= Len(b) /\ SubSeq(b, 1, Len(a)) = a

SpanInvariants ==
  /\ current_offset <= Len(payload_buffer)
  /\ current_offset = SpanEnd(Len(offset_len_list))
  /\ \A i \in 1..Len(offset_len_list) :
       /\ offset_len_list[i][1] = SpanEnd(i - 1) + 4
       /\ SpanEnd(i) <= Len(payload_buffer)
  /\ \A i, j \in 1..Len(offset_len_list) :
       i < j => /\ offset_len_list[i][1] < offset_len_list[j][1]
                /\ SpanEnd(i) <= offset_len_list[j][1]

\* The buffer and the span list only grow, and the scan position never goes back.
SpanStep ==
  /\ IsPrefix(payload_buffer, payload_buffer')
  /\ IsPrefix(offset_len_list, offset_len_list')
  /\ current_offset' >= current_offset

\* C31: in every state the scan position is within the buffer, every span lies
\* within the buffer, the first span starts at 4 and every other one 4 behind
\* the end of the span before it, so that spans are in increasing order and
\* disjoint; the buffer and the list of spans only grow.
C31_SpanInvariants == []SpanInvariants /\ [][SpanStep]_vars

C31_Witness ==
  /\ b_pc = "recv"
  /\ pos < Len(stream)
  /\ offset_len_list = << <<4, 0>>, <<8, 2>> >>
  /\ current_offset = 10
  /\ Len(payload_buffer) = 12

\* ------------------------------------------------------------------ termination
\* A scan that records k frames moves current_offset on by at least 4 for each
\* of them, the body position never goes back, and a read of the publish loop
\* consumes bytes or leaves the loop.
ReadLoopStep ==
  /\ current_offset' - current_offset
       >= 4 * (Len(offset_len_list') - Len(offset_len_list))
  /\ Len(offset_len_list') >= Len(offset_len_list)
  /\ pos' >= pos
  /\ (p_pc \in {"meta", "data"} /\ p_pc' \in {"meta", "data"}) => p_read' > p_read

\* C32: the batch receive loop and the publish read loop are left after
\* finitely many steps, whatever the bytes of the body are, and every step of
\* them makes progress: a recorded frame moves the scan on by at least 4 bytes
\* (also a frame of length zero), a publish read consumes bytes or ends the loop.
C32_ReadLoopsTerminate ==
  /\ (b_pc = "recv") ~> (b_pc \in {"validate", "done"})
  /\ (p_pc \in {"meta", "data"}) ~> (p_pc \in {"publish", "done"})
  /\ [][ReadLoopStep]_vars

C32_Witness ==
  /\ b_pc = "validate"
  /\ frames = << <<>>, <<>> >>
  /\ tail = <<0, 0, 1, 0, 3>>
  /\ offset_len_list = << <<4, 0>>, <<8, 0>> >>
  /\ chunk_failed

\* ------------------------------------------------------------------ publish stream, continued
FirstIsSentinel == HasHeader(1) /\ Declared(1) = 0

\* C33: a stream whose first metadata length is zero ends with the
\* InvalidRequest error of an empty submission, and publish_collabs is never
\* called with an empty list.
C33_FirstFrameSentinelRejected ==
  /\ (FirstIsSentinel /\ p_pc = "done") =>
       /\ p_resp = Err("InvalidRequest", "did not receive any data to publish")
       /\ published = <<>>
       /\ p_read = 4
  /\ \A i \in 1..Len(published) : published[i] # <<>>

C33_Witness ==
  /\ p_stream = <<Sentinel, SmallMeta>>
  /\ p_pc = "done"
  /\ p_resp.kind = "InvalidRequest"
  /\ published = <<>>

\* The frame at k is wholly in the body and, as metadata, parses.
FrameGood(k) ==
  /\ HasHeader(k)
  /\ p_stream[k].body = Declared(k)
  /\ IsMetaPos(k) => p_stream[k].json_ok

LimitAt(k) == IF IsMetaPos(k) THEN MetaLimit ELSE DataLimit

\* C34: the handler stops at a complete frame only when the frame is the
\* sentinel or declares more than its limit, so a metadata frame of exactly
\* 4 MiB and a data frame of exactly 32 MiB are read; a frame declaring one byte
\* more is rejected as too large; and a data frame of length zero gives an item
\* with empty data.
C34_SizeLimitBoundaries ==
  /\ (p_pc = "done" /\ FrameGood(p_next) /\ ~AtSentinel) =>
       /\ Declared(p_next) > LimitAt(p_next)
       /\ p_resp.kind = "InvalidRequest"
  /\ (p_pc = "done" /\ HasHeader(p_next) /\ Declared(p_next) = LimitAt(p_next) + 1) =>
       p_resp = Err("InvalidRequest",
                    IF IsMetaPos(p_next) THEN "metadata too large" ELSE "data too large")
  /\ \A k \in 1..Len(accumulator) :
       /\ accumulator[k].data_len = Declared(2 * k)
       /\ Declared(2 * k - 1) \in 1..MetaLimit
       /\ Declared(2 * k) \in 0..DataLimit
  /\ (p_pc = "meta" /\ p_next > 1) => Len(accumulator) * 2 = p_next - 1
  /\ p_pc = "data" => Len(accumulator) * 2 = p_next - 2

C34_Witness ==
  /\ p_pc = "done"
  /\ p_resp = Ok
  /\ Len(accumulator) = 2
  /\ Declared(1) = MetaLimit
  /\ accumulator[1].data_len = DataLimit
  /\ accumulator[2].data_len = 0
  /\ published = <<accumulator>>

\* ------------------------------------------------------------------ fetch_embeddings
\* The list as validation collected it, before fetch_embeddings ran.
BeforeFetch == Collect(results)

EmbeddingOf(outcome) == IF outcome = "Some" THEN "Computed" ELSE "NoEmbeddings"

\* C35: once fetch_embeddings has run, either no computation failed and record
\* i carries the result of computation i, for every i, or some computation
\* failed and the list is exactly as it was before the call; the other fields
\* of the records are never touched.
C35_FetchEmbeddingsAllOrNothing ==
  Called("fetch_embeddings") =>
    /\ Len(embedding_results) = Len(BeforeFetch)
    /\ Len(collab_params_list) = Len(BeforeFetch)
    /\ IF BatchEmbeddingFailed
       THEN collab_params_list = BeforeFetch
       ELSE \A i \in 1..Len(collab_params_list) :
              collab_params_list[i] =
                [BeforeFetch[i] EXCEPT !.embeddings = EmbeddingOf(embedding_results[i])]

C35_Witness ==
  /\ b_pc = "insert"
  /\ embedding_results = <<"Some", "Err">>
  /\ Len(collab_params_list) = 2
  /\ \A i \in 1..2 : collab_params_list[i].embeddings = "Submitted"

\* ------------------------------------------------------------------ C36
\* The device id the claim gives to a message: the header's value, "" without one.
RoutedDeviceId(r) ==
  IF rt_req[r].device_header \in {"missing", "invalid"} THEN "" ELSE rt_req[r].device_header

\* C36: a relayed message carries the uid of the authenticated caller of its request
\* and the device id of that request's device-id header, the empty string when the
\* header is missing or invalid; two messages whose requests agree on the header
\* carry the same device id whatever device id their envelopes hold, and a request
\* that built no message has none.
C36_RoutingIdentity ==
  /\ \A r \in Reqs :
       IF attempts[r] > 0
       THEN /\ rt_msg[r].uid = GetUserUid(rt_req[r].user_uuid)
            /\ rt_msg[r].device_id = RoutedDeviceId(r)
       ELSE rt_msg[r] = NoMessage
  /\ \A r, q \in Reqs :
       (attempts[r] > 0 /\ attempts[q] > 0
          /\ rt_req[r].device_header = rt_req[q].device_header)
         => rt_msg[r].device_id = rt_msg[q].device_id
  /\ \A r, q \in Reqs :
       (attempts[r] > 0 /\ attempts[q] > 0 /\ r # q) => rt_msg[r].uid # rt_msg[q].uid

C36_Witness ==
  /\ admitted = {1, 2}
  /\ rt_req[1].device_header = "missing" /\ rt_req[1].envelope_device_id = "devB"
  /\ rt_req[2].device_header = "devA" /\ rt_req[2].envelope_device_id = "devB"
  /\ rt_msg[1] = [uid |-> GetUserUid(1), device_id |-> ""]
  /\ rt_msg[2] = [uid |-> GetUserUid(2), device_id |-> "devA"]
  /\ rt_resp[1] = Ok /\ rt_resp[2] = Ok

====
